---- MODULE Spec2Model ----
(***************************************************************************)
(* A model of the strandnerd crawler: the feed cache (FeedCache.GetFeeds), *)
(* the bounded batch crawl (Service.CrawlAllDueFeeds), the per-feed crawl  *)
(* (Service.crawlSingleFeed) and the queue cycle                            *)
(* (Service.ProcessQueueRequests), each under its own specification.       *)
(***************************************************************************)
EXTENDS Integers, Sequences, FiniteSets, TLC

(***************************************************************************)
(* Bounds of the model.                                                    *)
(***************************************************************************)
\* the clock runs from 0 to MaxClock minutes
MaxClock == 5
\* the CMS holds up to NumFeeds feed definitions
NumFeeds == 4
\* a feed document holds up to MaxItems items
MaxItems == 2
\* a feed is crawled up to MaxCrawls times in a row
MaxCrawls == 2
\* the CMS queue holds up to MaxPending requests
MaxPending == 2
\* each goroutine runs up to MaxCycles ProcessQueueRequests cycles
MaxCycles == 2
\* a feed's crawl interval is up to MaxInterval minutes
MaxInterval == 2
\* a DOM node has up to MaxDepth - 1 ancestors
MaxDepth == 3
\* a descendant selector has up to MaxChain components
MaxChain == 3

(***************************************************************************)
(* Program constants.                                                      *)
(***************************************************************************)
\* NewFeedCache(5 * time.Minute): the cache TTL, in minutes
TTL == 5
\* semaphore := make(chan struct{}, 3): the capacity of the batch semaphore
MaxConcurrent == 3
\* Config.MaxConcurrentCrawls: the default of MAX_CONCURRENT_CRAWLS
MaxConcurrentCrawls == 3
\* GetInspirationPosts(feed.ID, 100): the limit of the existing-posts listing
ExistingPostsLimit == 100

\* The goroutines of main that call into one Service: the scheduler loop
\* (runCrawlScheduler) and the 10-second queue poller.
Callers == {"scheduler", "poller"}
\* no goroutine: the value of rwWriter while nobody called mutex.Lock
NoWriter == "none"
\* the results of a GetFeeds call: none yet, (nil, err), (feeds, nil)
NoRet == [status |-> "none", feeds |-> <<>>]
ErrRet == [status |-> "error", feeds |-> <<>>]
OkRet(l) == [status |-> "ok", feeds |-> l]
\* time.Time{}: the zero time a new FeedCache holds in lastUpdate
ZeroTime == -1
\* time.Since saturates at the largest Duration for the zero time
MaxDuration == 1000000

VARIABLES
    now,         \* the wall clock, in minutes
    cmsFeeds,    \* the feed lists GetInspirationFeeds may return in this state
    feeds,       \* FeedCache.feeds
    lastUpdate,  \* FeedCache.lastUpdate
    rwReaders,   \* goroutines holding FeedCache.mutex for reading
    rwWriter,    \* the goroutine that called mutex.Lock (pending or holding)
    pc,          \* each caller's position inside GetFeeds
    ret,         \* what each caller's GetFeeds call returned
    hist,        \* per call: what was observed during it (history only)
    lastFetch,   \* the outcome of the latest upstream fetch (history only)
    bpc,         \* each caller's position inside CrawlAllDueFeeds
    dueFeeds,    \* CrawlAllDueFeeds: the local dueFeeds
    results,     \* CrawlAllDueFeeds: the local results slice
    semaphore,   \* CrawlAllDueFeeds: the number of tokens in the local channel
    wg,          \* CrawlAllDueFeeds: the WaitGroup counter
    spawned,     \* CrawlAllDueFeeds: how many goroutines the loop has started
    wpc,         \* each started goroutine's position
    wres,        \* each started goroutine's local result
    bret,        \* what CrawlAllDueFeeds returned
    outOfOrder,  \* some goroutine stored before one of lower index (history only)
    feedCall,    \* each caller's CrawlFeed: position, outcome and returned values
    feedDoc,     \* the items of the feed document at the feed's URL
    cmsPosts,    \* the GUIDs of the posts the CMS holds for the feed
    otherPosts,  \* how many more posts, with other GUIDs, the CMS holds for it
    analysis,    \* Service.enableContentAnalysis and whether llmClient != nil
    crawl,       \* each caller's crawlSingleFeed: locals, result and history
    cmsQueue,    \* the crawl requests the CMS queue holds
    cycle,       \* each caller's ProcessQueueRequests: locals and history
    delivered,   \* per request: crawls dispatched, failed acknowledgments (history)
    fnCall,      \* a call of a pure function: the function and its arguments
    fnResult     \* what the call returned

cacheVars == <<feeds, lastUpdate, rwReaders, rwWriter, pc, ret, hist, lastFetch>>
batchVars == <<bpc, dueFeeds, results, semaphore, wg, spawned, wpc, wres, bret, outOfOrder, feedCall>>
crawlVars == <<feedDoc, cmsPosts, otherPosts, analysis, crawl>>
queueVars == <<cmsQueue, cycle, delivered>>
fnVars == <<fnCall, fnResult>>
vars == <<now, cmsFeeds, cacheVars, batchVars, crawlVars, queueVars, fnVars>>

\* InspirationFeed.LastCrawledAt == nil
NeverCrawled == -1
\* a LastCrawledAt string that time.Parse(time.RFC3339, ...) rejects
BadTimestamp == -2

\* Feed definitions as the CMS returns them: never crawled, inactive,
\* crawled at minute 0 with a crawl interval of one minute, and carrying a
\* last-crawled string that is no RFC 3339 timestamp.
NewFeed(k) ==
    [id |-> k, isActive |-> TRUE, lastCrawledAt |-> NeverCrawled, crawlIntervalMinutes |-> 1]
InactiveFeed(k) ==
    [id |-> k, isActive |-> FALSE, lastCrawledAt |-> NeverCrawled, crawlIntervalMinutes |-> 1]
CrawledFeed(k) ==
    [id |-> k, isActive |-> TRUE, lastCrawledAt |-> 0, crawlIntervalMinutes |-> 1]

GarbledFeed(k) ==
    [id |-> k, isActive |-> TRUE, lastCrawledAt |-> BadTimestamp, crawlIntervalMinutes |-> 1]

\* The feed lists the CMS may hold: the empty list and two non-empty ones.
FeedLists == {<<>>, <<NewFeed(1)>>, <<NewFeed(1), NewFeed(2)>>}

\* time.Since(t) at the current clock value
Since(t) == IF t = ZeroTime THEN MaxDuration ELSE now - t

\* a buggy variant: the freshness test forgets the TTL
CacheFreshIgnoringTTL == Len(feeds) > 0

\* time.Since(c.lastUpdate) < c.ttl && len(c.feeds) > 0
CacheFresh == Since(lastUpdate) < TTL /\ Len(feeds) > 0

\* history of one call.  made: how the call found the cache at its first
\* check ("fresh", "emptyInTTL": within the TTL of a refresh that stored an
\* empty list, "expired": no refresh within the TTL).  peer: the latest
\* upstream fetch another caller made while this one waited for the lock.
NoPeer == [kind |-> "none", at |-> ZeroTime, list |-> <<>>]
NewCall == [made |-> "none", didFetch |-> FALSE, fetchSeen |-> FALSE, peer |-> NoPeer]

\* callers that have found the cache stale and wait for the exclusive lock
Waiting(c) == pc[c] \in {"wantLock", "lockPending", "locked"}

\* history: a fetch by caller c with the given outcome is seen by every call
\* in progress, and covers every caller waiting for the lock
NoteFetch(c, kind, list) ==
    [d \in Callers |->
        IF d = c THEN [hist[d] EXCEPT !.didFetch = TRUE, !.fetchSeen = TRUE]
        ELSE IF Waiting(d)
             THEN [hist[d] EXCEPT !.fetchSeen = TRUE,
                                  !.peer = [kind |-> kind, at |-> now, list |-> list]]
        ELSE hist[d]]

\* history: at the double check, whether the covering refresh is younger
\* than the TTL
NoteRecheck(c) ==
    IF hist[c].peer.kind = "ok"
    THEN [hist EXCEPT ![c].peer.kind = IF Since(hist[c].peer.at) < TTL THEN "okInTime" ELSE "okLate",
                      ![c].peer.at = ZeroTime]
    ELSE hist

(***************************************************************************)
(* FeedCache.GetFeeds, one action per step between lock operations.        *)
(***************************************************************************)
\* a goroutine calls GetFeeds
CallGetFeeds(c) ==
    /\ pc[c] \in {"idle", "done"}
    /\ pc' = [pc EXCEPT ![c] = "start"]
    /\ ret' = [ret EXCEPT ![c] = NoRet]
    /\ hist' = [hist EXCEPT ![c] = NewCall]
    /\ UNCHANGED <<batchVars, crawlVars, queueVars, now, cmsFeeds, feeds, lastUpdate, rwReaders, rwWriter, lastFetch>>
    /\ UNCHANGED fnVars

\* c.mutex.RLock(): blocks while a writer holds or waits for the mutex
RLock(c) ==
    /\ pc[c] = "start"
    /\ rwWriter = NoWriter
    /\ rwReaders' = rwReaders \cup {c}
    /\ pc' = [pc EXCEPT ![c] = "rlocked"]
    /\ UNCHANGED <<batchVars, crawlVars, queueVars, now, cmsFeeds, feeds, lastUpdate, rwWriter, ret, hist, lastFetch>>
    /\ UNCHANGED fnVars

\* the first freshness check, under the read lock, then RUnlock
FirstCheck(c) ==
    /\ pc[c] = "rlocked"
    /\ rwReaders' = rwReaders \ {c}
    /\ hist' = [hist EXCEPT ![c].made =
                   IF Since(lastUpdate) >= TTL THEN "expired"
                   ELSE IF Len(feeds) > 0 THEN "fresh" ELSE "emptyInTTL"]
    /\ IF CacheFresh
       THEN /\ ret' = [ret EXCEPT ![c] = OkRet(feeds)]
            /\ pc' = [pc EXCEPT ![c] = "done"]
       ELSE /\ ret' = ret
            /\ pc' = [pc EXCEPT ![c] = "wantLock"]
    /\ UNCHANGED <<batchVars, crawlVars, queueVars, now, cmsFeeds, feeds, lastUpdate, rwWriter, lastFetch>>
    /\ UNCHANGED fnVars

\* c.mutex.Lock(), first half: exclude the other writers and new readers
LockBegin(c) ==
    /\ pc[c] = "wantLock"
    /\ rwWriter = NoWriter
    /\ rwWriter' = c
    /\ pc' = [pc EXCEPT ![c] = "lockPending"]
    /\ UNCHANGED <<batchVars, crawlVars, queueVars, now, cmsFeeds, feeds, lastUpdate, rwReaders, ret, hist, lastFetch>>
    /\ UNCHANGED fnVars

\* c.mutex.Lock(), second half: wait for the active readers to leave
LockAcquire(c) ==
    /\ pc[c] = "lockPending"
    /\ rwReaders = {}
    /\ pc' = [pc EXCEPT ![c] = "locked"]
    /\ UNCHANGED <<batchVars, crawlVars, queueVars, now, cmsFeeds, feeds, lastUpdate, rwReaders, rwWriter, ret, hist, lastFetch>>
    /\ UNCHANGED fnVars

\* a buggy variant: no second check, always refresh
DoubleCheckSkipped(c) ==
    /\ pc[c] = "locked"
    /\ hist' = NoteRecheck(c)
    /\ pc' = [pc EXCEPT ![c] = "fetching"]
    /\ UNCHANGED <<batchVars, crawlVars, queueVars, now, cmsFeeds, feeds, lastUpdate, rwReaders, rwWriter, ret, lastFetch>>
    /\ UNCHANGED fnVars

\* the double check under the exclusive lock; a fresh cache is returned and
\* the deferred Unlock runs
DoubleCheck(c) ==
    /\ pc[c] = "locked"
    /\ hist' = NoteRecheck(c)
    /\ IF CacheFresh
       THEN /\ ret' = [ret EXCEPT ![c] = OkRet(feeds)]
            /\ rwWriter' = NoWriter
            /\ pc' = [pc EXCEPT ![c] = "done"]
       ELSE /\ ret' = ret
            /\ rwWriter' = rwWriter
            /\ pc' = [pc EXCEPT ![c] = "fetching"]
    /\ UNCHANGED <<batchVars, crawlVars, queueVars, now, cmsFeeds, feeds, lastUpdate, rwReaders, lastFetch>>
    /\ UNCHANGED fnVars

\* cmsClient.GetInspirationFeeds() succeeds: store, stamp, Unlock, return
FetchOK(c) ==
    /\ pc[c] = "fetching"
    /\ \E l \in cmsFeeds :
        /\ feeds' = l
        /\ ret' = [ret EXCEPT ![c] = OkRet(l)]
        /\ hist' = NoteFetch(c, IF Len(l) > 0 THEN "ok" ELSE "empty", l)
    /\ lastUpdate' = now
    /\ lastFetch' = "ok"
    /\ rwWriter' = NoWriter
    /\ pc' = [pc EXCEPT ![c] = "done"]
    /\ UNCHANGED <<batchVars, crawlVars, queueVars, now, cmsFeeds, rwReaders>>
    /\ UNCHANGED fnVars

\* a buggy variant: a failed refresh stamps the refresh time
FetchFailStamps(c) ==
    /\ pc[c] = "fetching"
    /\ ret' = [ret EXCEPT ![c] = ErrRet]
    /\ hist' = NoteFetch(c, "failed", <<>>)
    /\ lastFetch' = "failed"
    /\ lastUpdate' = now
    /\ rwWriter' = NoWriter
    /\ pc' = [pc EXCEPT ![c] = "done"]
    /\ UNCHANGED <<batchVars, crawlVars, queueVars, now, cmsFeeds, feeds, rwReaders>>
    /\ UNCHANGED fnVars

\* cmsClient.GetInspirationFeeds() fails: return nil, err; Unlock
FetchFail(c) ==
    /\ pc[c] = "fetching"
    /\ ret' = [ret EXCEPT ![c] = ErrRet]
    /\ hist' = NoteFetch(c, "failed", <<>>)
    /\ lastFetch' = "failed"
    /\ rwWriter' = NoWriter
    /\ pc' = [pc EXCEPT ![c] = "done"]
    /\ UNCHANGED <<batchVars, crawlVars, queueVars, now, cmsFeeds, feeds, lastUpdate, rwReaders>>
    /\ UNCHANGED fnVars

\* time passes
Tick ==
    /\ now < MaxClock
    /\ now' = now + 1
    /\ UNCHANGED <<cmsFeeds, cacheVars, batchVars, crawlVars, queueVars>>
    /\ UNCHANGED fnVars

(***************************************************************************)
(* Service.CrawlAllDueFeeds: the caller's steps and the goroutines' steps. *)
(***************************************************************************)
\* a buggy variant: a feed whose timestamp cannot be parsed is not due
IsDueUnlessGarbled(f) ==
    IF ~f.isActive THEN FALSE
    ELSE IF f.lastCrawledAt = NeverCrawled THEN TRUE
    ELSE IF f.lastCrawledAt = BadTimestamp THEN FALSE
    ELSE now - f.lastCrawledAt >= f.crawlIntervalMinutes

\* InspirationFeed.IsDue
IsDue(f) ==
    IF ~f.isActive THEN FALSE
    ELSE IF f.lastCrawledAt = NeverCrawled THEN TRUE
    ELSE IF f.lastCrawledAt = BadTimestamp THEN TRUE
    ELSE now - f.lastCrawledAt >= f.crawlIntervalMinutes

\* models.CrawlResult{}: the zero value make() fills the results slice with
ZeroResult == [feedID |-> 0, success |-> FALSE]

\* no CrawlFeed call yet
NoFeedCall == [pc |-> "idle", got |-> "none", crawl |-> "none", err |-> "none",
               result |-> ZeroResult]

BatchInit ==
    /\ feedCall = [t \in Callers |-> NoFeedCall]
    /\ bpc = [t \in Callers |-> "idle"]
    /\ dueFeeds = [t \in Callers |-> <<>>]
    /\ results = [t \in Callers |-> <<>>]
    /\ semaphore = [t \in Callers |-> 0]
    /\ wg = [t \in Callers |-> 0]
    /\ spawned = [t \in Callers |-> 0]
    /\ wpc = [t \in Callers |-> <<>>]
    /\ wres = [t \in Callers |-> <<>>]
    /\ bret = [t \in Callers |-> "none"]
    /\ outOfOrder = [t \in Callers |-> FALSE]


NoResult == [feedID |-> 0, success |-> FALSE, failed |-> FALSE,
             postsFound |-> 0, postsAdded |-> 0, postsSkipped |-> 0]

\* no crawl yet
NoCrawl == [pc |-> "idle", posts |-> <<>>, existingGUIDs |-> {}, idx |-> 0,
            result |-> NoResult, cur |-> [primary |-> "nil", source |-> "nil", by |-> "nil",
                    verdict |-> "nil", named |-> "nil"],
            listing |-> "none", submitted |-> <<>>, run |-> 0, startGUIDs |-> {},
            parsed |-> "none", updated |-> "none"]

CrawlIdle ==
    /\ feedDoc = <<>>
    /\ cmsPosts = {}
    /\ otherPosts = 0
    /\ analysis = [enabled |-> FALSE, client |-> FALSE]
    /\ crawl = [t \in Callers |-> NoCrawl]

\* the crawl requests the CMS may queue: a single crawl of a feed, a single
\* crawl without a feed id, a crawl of all due feeds, an unknown type
Requests ==
    { [id |-> 1, type |-> "single", feedID |-> "f1"],
      [id |-> 2, type |-> "single", feedID |-> "nil"],
      [id |-> 3, type |-> "all", feedID |-> "nil"],
      [id |-> 4, type |-> "refresh", feedID |-> "nil"] }

\* request == nil
NoRequest == [id |-> 0, type |-> "nil", feedID |-> "nil"]

\* no cycle yet
NoCycle == [pc |-> "idle", request |-> NoRequest, err |-> "none",
            events |-> <<>>, acked |-> <<>>, cycles |-> 0, arg |-> "nil"]

NotDelivered == [id \in {r.id : r \in Requests} |-> [crawls |-> 0, ackFailed |-> FALSE]]

\* no call of a pure function
NoCall == [fn |-> "none"]

QueueIdle ==
    /\ cmsQueue = {}
    /\ cycle = [c \in Callers |-> NoCycle]
    /\ delivered = NotDelivered
    /\ fnCall = NoCall
    /\ fnResult = "none"

CacheInit ==
    /\ feeds = <<>>
    /\ lastUpdate = ZeroTime
    /\ rwReaders = {}
    /\ rwWriter = NoWriter
    /\ pc = [c \in Callers |-> "idle"]
    /\ ret = [c \in Callers |-> NoRet]
    /\ hist = [c \in Callers |-> NewCall]
    /\ lastFetch = "none"

\* a new FeedCache, and a CMS whose feed list is any of FeedLists at any time
InitCache ==
    /\ now = 0
    /\ cmsFeeds = FeedLists
    /\ CacheInit
    /\ BatchInit
    /\ CrawlIdle
    /\ QueueIdle

NextCache ==
    \/ \E c \in Callers : CallGetFeeds(c)
    \/ \E c \in Callers : RLock(c)
    \/ \E c \in Callers : FirstCheck(c)
    \/ \E c \in Callers : LockBegin(c)
    \/ \E c \in Callers : LockAcquire(c)
    \/ \E c \in Callers : DoubleCheck(c)
    \/ \E c \in Callers : FetchOK(c)
    \/ \E c \in Callers : FetchFail(c)
    \/ Tick

SpecCache == InitCache /\ [][NextCache]_vars


\* CrawlAllDueFeeds is called and calls s.cache.GetFeeds
BatchStart(t) ==
    /\ bpc[t] = "idle"
    /\ pc[t] \in {"idle", "done"}
    /\ bpc' = [bpc EXCEPT ![t] = "getFeeds"]
    /\ pc' = [pc EXCEPT ![t] = "start"]
    /\ ret' = [ret EXCEPT ![t] = NoRet]
    /\ hist' = [hist EXCEPT ![t] = NewCall]
    /\ UNCHANGED <<now, cmsFeeds, feeds, lastUpdate, rwReaders, rwWriter, lastFetch, crawlVars, queueVars>>
    /\ UNCHANGED <<dueFeeds, results, semaphore, wg, spawned, wpc, wres, bret, outOfOrder, feedCall>>
    /\ UNCHANGED fnVars

\* GetFeeds failed: return nil, fmt.Errorf("failed to get feeds")
BatchGetFeedsFailed(t) ==
    /\ bpc[t] = "getFeeds"
    /\ pc[t] = "done"
    /\ ret[t].status = "error"
    /\ bpc' = [bpc EXCEPT ![t] = "returned"]
    /\ bret' = [bret EXCEPT ![t] = "error"]
    /\ UNCHANGED <<now, cmsFeeds, cacheVars, crawlVars, queueVars>>
    /\ UNCHANGED <<dueFeeds, results, semaphore, wg, spawned, wpc, wres, outOfOrder, feedCall>>
    /\ UNCHANGED fnVars

\* the IsDue filter; no due feed returns the empty slice, otherwise the
\* results slice, the semaphore and the WaitGroup are made
BatchFilter(t) ==
    /\ bpc[t] = "getFeeds"
    /\ pc[t] = "done"
    /\ ret[t].status = "ok"
    /\ LET due == SelectSeq(ret[t].feeds, IsDue)
       IN  /\ dueFeeds' = [dueFeeds EXCEPT ![t] = due]
           /\ results' = [results EXCEPT ![t] = [i \in 1..Len(due) |-> ZeroResult]]
           /\ wpc' = [wpc EXCEPT ![t] = [i \in 1..Len(due) |-> "notStarted"]]
           /\ wres' = [wres EXCEPT ![t] = [i \in 1..Len(due) |-> ZeroResult]]
           /\ IF Len(due) = 0
              THEN /\ bpc' = [bpc EXCEPT ![t] = "returned"]
                   /\ bret' = [bret EXCEPT ![t] = "ok"]
              ELSE /\ bpc' = [bpc EXCEPT ![t] = "spawn"]
                   /\ bret' = bret
    /\ semaphore' = [semaphore EXCEPT ![t] = 0]
    /\ wg' = [wg EXCEPT ![t] = 0]
    /\ spawned' = [spawned EXCEPT ![t] = 0]
    /\ outOfOrder' = [outOfOrder EXCEPT ![t] = FALSE]
    /\ UNCHANGED <<now, cmsFeeds, cacheVars, crawlVars, queueVars, feedCall>>
    /\ UNCHANGED fnVars

\* one iteration of the loop: wg.Add(1); go func(i, feed)
BatchSpawn(t) ==
    /\ bpc[t] = "spawn"
    /\ LET i == spawned[t] + 1
       IN  /\ wg' = [wg EXCEPT ![t] = @ + 1]
           /\ wpc' = [wpc EXCEPT ![t][i] = "acquire"]
           /\ spawned' = [spawned EXCEPT ![t] = i]
           /\ bpc' = [bpc EXCEPT ![t] = IF i = Len(dueFeeds[t]) THEN "wait" ELSE "spawn"]
    /\ UNCHANGED <<now, cmsFeeds, cacheVars, crawlVars, queueVars>>
    /\ UNCHANGED <<dueFeeds, results, semaphore, wres, bret, outOfOrder, feedCall>>
    /\ UNCHANGED fnVars

\* a buggy variant: the goroutine does not wait for a free slot
WorkerAcquireUnbounded(t, i) ==
    /\ i \in DOMAIN wpc[t]
    /\ wpc[t][i] = "acquire"
    /\ semaphore' = [semaphore EXCEPT ![t] = @ + 1]
    /\ wpc' = [wpc EXCEPT ![t][i] = "crawling"]
    /\ UNCHANGED <<now, cmsFeeds, cacheVars, crawlVars, queueVars>>
    /\ UNCHANGED <<bpc, dueFeeds, results, wg, spawned, wres, bret, outOfOrder, feedCall>>
    /\ UNCHANGED fnVars

\* semaphore <- struct{}{}: blocks while the channel is full
WorkerAcquire(t, i) ==
    /\ i \in DOMAIN wpc[t]
    /\ wpc[t][i] = "acquire"
    /\ semaphore[t] < MaxConcurrent
    /\ semaphore' = [semaphore EXCEPT ![t] = @ + 1]
    /\ wpc' = [wpc EXCEPT ![t][i] = "crawling"]
    /\ UNCHANGED <<now, cmsFeeds, cacheVars, crawlVars, queueVars>>
    /\ UNCHANGED <<bpc, dueFeeds, results, wg, spawned, wres, bret, outOfOrder, feedCall>>
    /\ UNCHANGED fnVars

\* result := s.crawlSingleFeed(&f) returns: the result carries the feed's id
\* and the crawl's outcome
WorkerCrawl(t, i) ==
    /\ i \in DOMAIN wpc[t]
    /\ wpc[t][i] = "crawling"
    /\ \E ok \in BOOLEAN :
        wres' = [wres EXCEPT ![t][i] = [feedID |-> dueFeeds[t][i].id, success |-> ok]]
    /\ wpc' = [wpc EXCEPT ![t][i] = "release"]
    /\ UNCHANGED <<now, cmsFeeds, cacheVars, crawlVars, queueVars>>
    /\ UNCHANGED <<bpc, dueFeeds, results, semaphore, wg, spawned, bret, outOfOrder, feedCall>>
    /\ UNCHANGED fnVars

\* a buggy variant: the slot is not given back
WorkerKeepsSlot(t, i) ==
    /\ i \in DOMAIN wpc[t]
    /\ wpc[t][i] = "release"
    /\ wpc' = [wpc EXCEPT ![t][i] = "store"]
    /\ UNCHANGED <<now, cmsFeeds, cacheVars, crawlVars, queueVars>>
    /\ UNCHANGED <<bpc, dueFeeds, results, semaphore, wg, spawned, wres, bret, outOfOrder, feedCall>>
    /\ UNCHANGED fnVars

\* <-semaphore
WorkerRelease(t, i) ==
    /\ i \in DOMAIN wpc[t]
    /\ wpc[t][i] = "release"
    /\ semaphore' = [semaphore EXCEPT ![t] = @ - 1]
    /\ wpc' = [wpc EXCEPT ![t][i] = "store"]
    /\ UNCHANGED <<now, cmsFeeds, cacheVars, crawlVars, queueVars>>
    /\ UNCHANGED <<bpc, dueFeeds, results, wg, spawned, wres, bret, outOfOrder, feedCall>>
    /\ UNCHANGED fnVars

\* the goroutines that have stored their result
Stored(t) == {j \in DOMAIN wpc[t] : wpc[t][j] = "done"}

\* a buggy variant: the result goes to the next free position of the slice
WorkerStoreInCompletionOrder(t, i) ==
    /\ i \in DOMAIN wpc[t]
    /\ wpc[t][i] = "store"
    /\ results' = [results EXCEPT ![t][Cardinality(Stored(t)) + 1] = wres[t][i]]
    /\ wg' = [wg EXCEPT ![t] = @ - 1]
    /\ wpc' = [wpc EXCEPT ![t][i] = "done"]
    /\ outOfOrder' = [outOfOrder EXCEPT ![t] = @ \/ \E j \in 1..(i - 1) : j \notin Stored(t)]
    /\ UNCHANGED <<now, cmsFeeds, cacheVars, crawlVars, queueVars>>
    /\ UNCHANGED <<bpc, dueFeeds, semaphore, spawned, wres, bret, feedCall>>
    /\ UNCHANGED fnVars

\* results[index] = *result, then the deferred wg.Done()
WorkerStore(t, i) ==
    /\ i \in DOMAIN wpc[t]
    /\ wpc[t][i] = "store"
    /\ results' = [results EXCEPT ![t][i] = wres[t][i]]
    /\ wg' = [wg EXCEPT ![t] = @ - 1]
    /\ wpc' = [wpc EXCEPT ![t][i] = "done"]
    /\ outOfOrder' = [outOfOrder EXCEPT ![t] = @ \/ \E j \in 1..(i - 1) : j \notin Stored(t)]
    /\ UNCHANGED <<now, cmsFeeds, cacheVars, crawlVars, queueVars>>
    /\ UNCHANGED <<bpc, dueFeeds, semaphore, spawned, wres, bret, feedCall>>
    /\ UNCHANGED fnVars

\* wg.Wait() returns; return results, nil
BatchWait(t) ==
    /\ bpc[t] = "wait"
    /\ wg[t] = 0
    /\ bpc' = [bpc EXCEPT ![t] = "returned"]
    /\ bret' = [bret EXCEPT ![t] = "ok"]
    /\ UNCHANGED <<now, cmsFeeds, cacheVars, crawlVars, queueVars>>
    /\ UNCHANGED <<dueFeeds, results, semaphore, wg, spawned, wpc, wres, outOfOrder, feedCall>>
    /\ UNCHANGED fnVars

\* the feed lists of the batch specification: NumFeeds feeds, each one new,
\* inactive or crawled a moment ago, the first one possibly with a garbled
\* last-crawled string
BatchFeedLists ==
    {l \in [1..NumFeeds -> {"new", "inactive", "crawled", "garbled"}] :
        \A k \in 2..NumFeeds : l[k] # "garbled"}

FeedOfKind(k, kind) ==
    IF kind = "new" THEN NewFeed(k)
    ELSE IF kind = "inactive" THEN InactiveFeed(k)
    ELSE IF kind = "garbled" THEN GarbledFeed(k)
    ELSE CrawledFeed(k)

\* a new Service over a CMS that holds one of the feed lists, and a scheduler
\* that runs one batch
InitBatch ==
    /\ now = 0
    /\ \E l \in BatchFeedLists :
        cmsFeeds = {[k \in 1..NumFeeds |-> FeedOfKind(k, l[k])]}
    /\ CacheInit
    /\ BatchInit
    /\ CrawlIdle
    /\ QueueIdle

Workers == 1..NumFeeds

NextBatch ==
    \/ BatchStart("scheduler")
    \/ RLock("scheduler")
    \/ FirstCheck("scheduler")
    \/ LockBegin("scheduler")
    \/ LockAcquire("scheduler")
    \/ DoubleCheck("scheduler")
    \/ FetchOK("scheduler")
    \/ FetchFail("scheduler")
    \/ BatchGetFeedsFailed("scheduler")
    \/ BatchFilter("scheduler")
    \/ BatchSpawn("scheduler")
    \/ \E i \in Workers : WorkerAcquire("scheduler", i)
    \/ \E i \in Workers : WorkerCrawl("scheduler", i)
    \/ \E i \in Workers : WorkerRelease("scheduler", i)
    \/ \E i \in Workers : WorkerStore("scheduler", i)
    \/ BatchWait("scheduler")

SpecBatch == InitBatch /\ [][NextBatch]_vars

\* the goroutines of a batch that are inside crawlSingleFeed
InFlight(t) == {i \in DOMAIN wpc[t] : wpc[t][i] = "crawling"}

(***************************************************************************)
(* Service.CrawlFeed, and a Service on which a CrawlFeed call (the queue   *)
(* poller's) runs beside a CrawlAllDueFeeds batch (the scheduler's).       *)
(***************************************************************************)
SetFeedCall(t, rec) == feedCall' = [feedCall EXCEPT ![t] = rec]

\* the feedID argument of the CrawlFeed call: the first feed of the CMS
RequestedFeedID == 1

\* CrawlFeed(feedID) is called: GetInspirationFeedByID fails, and CrawlFeed
\* returns nil and the wrapped error
CrawlFeedGetFailed(t) ==
    /\ feedCall[t].pc = "idle"
    /\ SetFeedCall(t, [feedCall[t] EXCEPT !.pc = "returned", !.got = "failed",
                                          !.err = "error"])
    /\ UNCHANGED <<now, cmsFeeds, cacheVars, crawlVars, queueVars>>
    /\ UNCHANGED <<bpc, dueFeeds, results, semaphore, wg, spawned, wpc, wres, bret, outOfOrder>>
    /\ UNCHANGED fnVars

\* a buggy variant: a feed that is not due is not crawled
CrawlFeedGetOKIfDue(t) ==
    /\ feedCall[t].pc = "idle"
    /\ \E l \in cmsFeeds : \E k \in DOMAIN l :
        /\ l[k].id = RequestedFeedID
        /\ SetFeedCall(t, [feedCall[t] EXCEPT !.pc = IF IsDue(l[k]) THEN "crawling" ELSE "returned",
                                              !.got = "ok", !.err = "nil",
                                              !.result = [feedID |-> l[k].id, success |-> FALSE]])
    /\ UNCHANGED <<now, cmsFeeds, cacheVars, crawlVars, queueVars>>
    /\ UNCHANGED <<bpc, dueFeeds, results, semaphore, wg, spawned, wpc, wres, bret, outOfOrder>>
    /\ UNCHANGED fnVars

\* CrawlFeed(feedID) is called: GetInspirationFeedByID answers with the feed
\* definition the CMS holds, and crawlSingleFeed(feed) is entered
CrawlFeedGetOK(t) ==
    /\ feedCall[t].pc = "idle"
    /\ \E l \in cmsFeeds : \E k \in DOMAIN l :
        /\ l[k].id = RequestedFeedID
        /\ SetFeedCall(t, [feedCall[t] EXCEPT !.pc = "crawling", !.got = "ok",
                                              !.result = [feedID |-> l[k].id, success |-> FALSE]])
    /\ UNCHANGED <<now, cmsFeeds, cacheVars, crawlVars, queueVars>>
    /\ UNCHANGED <<bpc, dueFeeds, results, semaphore, wg, spawned, wpc, wres, bret, outOfOrder>>
    /\ UNCHANGED fnVars

\* a buggy variant: a failed crawl is returned as an error
CrawlFeedReturnsError(t) ==
    /\ feedCall[t].pc = "crawling"
    /\ \E ok \in BOOLEAN :
        SetFeedCall(t, [feedCall[t] EXCEPT !.pc = "returned",
                                           !.crawl = IF ok THEN "succeeded" ELSE "failed",
                                           !.err = IF ok THEN "nil" ELSE "error",
                                           !.result.success = ok])
    /\ UNCHANGED <<now, cmsFeeds, cacheVars, crawlVars, queueVars>>
    /\ UNCHANGED <<bpc, dueFeeds, results, semaphore, wg, spawned, wpc, wres, bret, outOfOrder>>
    /\ UNCHANGED fnVars

\* return s.crawlSingleFeed(feed), nil: the crawl's outcome is in the result
CrawlFeedReturns(t) ==
    /\ feedCall[t].pc = "crawling"
    /\ \E ok \in BOOLEAN :
        SetFeedCall(t, [feedCall[t] EXCEPT !.pc = "returned",
                                           !.crawl = IF ok THEN "succeeded" ELSE "failed",
                                           !.err = "nil",
                                           !.result.success = ok])
    /\ UNCHANGED <<now, cmsFeeds, cacheVars, crawlVars, queueVars>>
    /\ UNCHANGED <<bpc, dueFeeds, results, semaphore, wg, spawned, wpc, wres, bret, outOfOrder>>
    /\ UNCHANGED fnVars

\* the feed lists of the Service specification: the first feed of any kind,
\* the others never crawled
ServiceFeedLists ==
    {l \in BatchFeedLists : \A k \in 2..NumFeeds : l[k] = "new"}

InitService ==
    /\ now = 0
    /\ \E l \in ServiceFeedLists :
        cmsFeeds = {[k \in 1..NumFeeds |-> FeedOfKind(k, l[k])]}
    /\ CacheInit
    /\ BatchInit
    /\ CrawlIdle
    /\ QueueIdle

NextService ==
    \/ NextBatch
    \/ CrawlFeedGetFailed("poller")
    \/ CrawlFeedGetOK("poller")
    \/ CrawlFeedReturns("poller")

SpecService == InitService /\ [][NextService]_vars

(***************************************************************************)
(* Service.crawlSingleFeed, one action per call to a collaborator.         *)
(***************************************************************************)
\* cleanString on the strings the feed documents of the model use: the
\* surrounding white space is trimmed
CleanString(s) == IF s = " g1 " THEN "g1" ELSE s

\* The items a feed may publish, in publication order: two plain items, one
\* without a GUID (its link stands in), one whose GUID cleans to the first
\* item's, and one without a link (dropped by ConvertToInspirationPosts).
FeedItems ==
    << [title |-> "t1", link |-> "u1", guid |-> "g1"],
       [title |-> "t2", link |-> "u2", guid |-> "g2"],
       [title |-> "t3", link |-> "u1", guid |-> ""],
       [title |-> "t4", link |-> "u2", guid |-> " g1 "],
       [title |-> "t5", link |-> "", guid |-> "g3"] >>

\* the feed documents: up to MaxItems of the items, in publication order
FeedDocs ==
    UNION { { [i \in 1..n |-> FeedItems[pick[i]]] :
                pick \in {f \in [1..n -> 1..Len(FeedItems)] :
                            \A i, j \in 1..n : i < j => f[i] < f[j]} } :
            n \in 0..MaxItems }

\* one item's CreateInspirationFeedPostRequest: title, URL and GUID, the GUID
\* falling back to the link
ConvertItem(item) ==
    [title |-> CleanString(item.title),
     url |-> CleanString(item.link),
     guid |-> IF item.guid # "" THEN CleanString(item.guid) ELSE CleanString(item.link)]

\* parser.ConvertToInspirationPosts: only posts with both title and URL
ConvertToInspirationPosts(items) ==
    SelectSeq([i \in 1..Len(items) |-> ConvertItem(items[i])],
              LAMBDA p : p.title # "" /\ p.url # "")

\* The GUID sets GetInspirationPosts(feedID, 100) may answer with: the
\* answer holds min(total, 100) of the feed's posts, the CMS choosing which.
ExistingListings ==
    LET total == Cardinality(cmsPosts) + otherPosts
        size == IF total < ExistingPostsLimit THEN total ELSE ExistingPostsLimit
    IN  {l \in SUBSET cmsPosts : Cardinality(l) + otherPosts >= size}

\* the classifier's answers: a verdict and an optional source name
Verdicts ==
    { [primary |-> TRUE, source |-> "nil"],
      [primary |-> FALSE, source |-> "nil"],
      [primary |-> FALSE, source |-> "wire"] }

Set(t, rec) == crawl' = [crawl EXCEPT ![t] = rec]

\* crawlSingleFeed(feed) is entered: result := &CrawlResult{FeedID, false}
CrawlStart(t) ==
    /\ crawl[t].pc \in {"idle", "done"}
    /\ crawl[t].run < MaxCrawls
    /\ Set(t, [NoCrawl EXCEPT !.pc = "parse",
                              !.result.feedID = 1,
                              !.run = crawl[t].run + 1,
                              !.startGUIDs = cmsPosts])
    /\ UNCHANGED <<now, cmsFeeds, cacheVars, batchVars, queueVars, feedDoc, cmsPosts, otherPosts, analysis>>
    /\ UNCHANGED fnVars

\* a buggy variant: a crawl that could not parse the feed stamps it as crawled
ParseFeedFailStamps(t) ==
    /\ crawl[t].pc = "parse"
    /\ Set(t, [crawl[t] EXCEPT !.pc = "done", !.result.failed = TRUE,
                               !.parsed = "failed", !.updated = "ok"])
    /\ UNCHANGED <<now, cmsFeeds, cacheVars, batchVars, queueVars, feedDoc, cmsPosts, otherPosts, analysis>>
    /\ UNCHANGED fnVars

\* s.rssParser.ParseFeed fails: result.Error is set, Success stays false
ParseFeedFail(t) ==
    /\ crawl[t].pc = "parse"
    /\ Set(t, [crawl[t] EXCEPT !.pc = "done", !.result.failed = TRUE,
                               !.parsed = "failed"])
    /\ UNCHANGED <<now, cmsFeeds, cacheVars, batchVars, queueVars, feedDoc, cmsPosts, otherPosts, analysis>>
    /\ UNCHANGED fnVars

\* ParseFeed succeeds: PostsFound is set; an empty document ends the crawl
\* with success, otherwise the items are converted to posts
ParseFeedOK(t) ==
    /\ crawl[t].pc = "parse"
    /\ IF Len(feedDoc) = 0
       THEN Set(t, [crawl[t] EXCEPT !.pc = "done", !.result.success = TRUE,
                                    !.parsed = "ok"])
       ELSE Set(t, [crawl[t] EXCEPT !.pc = "list", !.parsed = "ok",
                                    !.result.postsFound = Len(feedDoc),
                                    !.posts = ConvertToInspirationPosts(feedDoc)])
    /\ UNCHANGED <<now, cmsFeeds, cacheVars, batchVars, queueVars, feedDoc, cmsPosts, otherPosts, analysis>>
    /\ UNCHANGED fnVars

\* GetInspirationPosts(feed.ID, 100) answers: the map of existing GUIDs
ListExistingOK(t) ==
    /\ crawl[t].pc = "list"
    /\ \E l \in ExistingListings :
        Set(t, [crawl[t] EXCEPT !.pc = "loop", !.idx = 1,
                                !.existingGUIDs = l, !.listing = "ok"])
    /\ UNCHANGED <<now, cmsFeeds, cacheVars, batchVars, queueVars, feedDoc, cmsPosts, otherPosts, analysis>>
    /\ UNCHANGED fnVars

\* GetInspirationPosts fails: a warning, and the crawl continues with the
\* empty list
ListExistingFail(t) ==
    /\ crawl[t].pc = "list"
    /\ Set(t, [crawl[t] EXCEPT !.pc = "loop", !.idx = 1,
                               !.existingGUIDs = {}, !.listing = "failed"])
    /\ UNCHANGED <<now, cmsFeeds, cacheVars, batchVars, queueVars, feedDoc, cmsPosts, otherPosts, analysis>>
    /\ UNCHANGED fnVars

\* a buggy variant: the duplicate test is missing
NextPostNoDedup(t) ==
    /\ crawl[t].pc = "loop"
    /\ LET c == crawl[t]
       IN  IF c.idx > Len(c.posts)
           THEN Set(t, [c EXCEPT !.pc = "update"])
           ELSE IF analysis.enabled /\ analysis.client
           THEN Set(t, [c EXCEPT !.pc = "classify"])
           ELSE Set(t, [c EXCEPT !.pc = "create",
                                 !.cur = [primary |-> "true", source |-> "nil", by |-> "default",
                                         verdict |-> "nil", named |-> "nil"]])
    /\ UNCHANGED <<now, cmsFeeds, cacheVars, batchVars, queueVars, feedDoc, cmsPosts, otherPosts, analysis>>
    /\ UNCHANGED fnVars

\* the head of the loop over posts: after the last post go on to the
\* timestamp update; skip a post whose GUID is in the map; otherwise go to the
\* classifier, or default to primary reporting when analysis is off
NextPost(t) ==
    /\ crawl[t].pc = "loop"
    /\ LET c == crawl[t]
       IN  IF c.idx > Len(c.posts)
           THEN Set(t, [c EXCEPT !.pc = "update"])
           ELSE IF c.posts[c.idx].guid \in c.existingGUIDs
           THEN Set(t, [c EXCEPT !.idx = @ + 1, !.result.postsSkipped = @ + 1])
           ELSE IF analysis.enabled /\ analysis.client
           THEN Set(t, [c EXCEPT !.pc = "classify"])
           ELSE Set(t, [c EXCEPT !.pc = "create",
                                 !.cur = [primary |-> "true", source |-> "nil", by |-> "default",
                                         verdict |-> "nil", named |-> "nil"]])
    /\ UNCHANGED <<now, cmsFeeds, cacheVars, batchVars, queueVars, feedDoc, cmsPosts, otherPosts, analysis>>
    /\ UNCHANGED fnVars

\* s.llmClient.AnalyzeContent answers: its verdict and source are applied
ClassifyOK(t) ==
    /\ crawl[t].pc = "classify"
    /\ \E v \in Verdicts :
        Set(t, [crawl[t] EXCEPT !.pc = "create",
                                !.cur = [primary |-> IF v.primary THEN "true" ELSE "false",
                                         source |-> v.source, by |-> "classifier",
                                         verdict |-> IF v.primary THEN "true" ELSE "false",
                                         named |-> v.source]])
    /\ UNCHANGED <<now, cmsFeeds, cacheVars, batchVars, queueVars, feedDoc, cmsPosts, otherPosts, analysis>>
    /\ UNCHANGED fnVars

\* a buggy variant: a post whose analysis failed is skipped
ClassifyFailSkipsPost(t) ==
    /\ crawl[t].pc = "classify"
    /\ Set(t, [crawl[t] EXCEPT !.pc = "loop", !.idx = @ + 1,
                               !.result.postsSkipped = @ + 1])
    /\ UNCHANGED <<now, cmsFeeds, cacheVars, batchVars, queueVars, feedDoc, cmsPosts, otherPosts, analysis>>
    /\ UNCHANGED fnVars

\* a buggy variant: a failed analysis defaults to primary reporting
ClassifyFailDefaultsPrimary(t) ==
    /\ crawl[t].pc = "classify"
    /\ Set(t, [crawl[t] EXCEPT !.pc = "create",
                               !.cur = [primary |-> "true", source |-> "nil", by |-> "failure",
                                        verdict |-> "nil", named |-> "nil"]])
    /\ UNCHANGED <<now, cmsFeeds, cacheVars, batchVars, queueVars, feedDoc, cmsPosts, otherPosts, analysis>>
    /\ UNCHANGED fnVars

\* AnalyzeContent fails: not primary reporting, no source name
ClassifyFail(t) ==
    /\ crawl[t].pc = "classify"
    /\ Set(t, [crawl[t] EXCEPT !.pc = "create",
                               !.cur = [primary |-> "false", source |-> "nil", by |-> "failure",
                                        verdict |-> "nil", named |-> "nil"]])
    /\ UNCHANGED <<now, cmsFeeds, cacheVars, batchVars, queueVars, feedDoc, cmsPosts, otherPosts, analysis>>
    /\ UNCHANGED fnVars

\* history: the post at the head of the loop was passed to
\* CreateInspirationFeedPost
Submission(c, ok) ==
    [idx |-> c.idx, guid |-> c.posts[c.idx].guid, primary |-> c.cur.primary,
     source |-> c.cur.source, by |-> c.cur.by, verdict |-> c.cur.verdict,
     named |-> c.cur.named, created |-> ok]

\* s.cmsClient.CreateInspirationFeedPost succeeds: the CMS holds the post
CreatePostOK(t) ==
    /\ crawl[t].pc = "create"
    /\ LET c == crawl[t]
       IN  /\ cmsPosts' = cmsPosts \cup {c.posts[c.idx].guid}
           /\ Set(t, [c EXCEPT !.pc = "loop", !.idx = @ + 1,
                               !.result.postsAdded = @ + 1,
                               !.submitted = Append(@, Submission(c, TRUE))])
    /\ UNCHANGED <<now, cmsFeeds, cacheVars, batchVars, queueVars, feedDoc, otherPosts, analysis>>
    /\ UNCHANGED fnVars

\* a buggy variant: a refused post is not counted
CreatePostFailUncounted(t) ==
    /\ crawl[t].pc = "create"
    /\ LET c == crawl[t]
       IN  Set(t, [c EXCEPT !.pc = "loop", !.idx = @ + 1,
                            !.submitted = Append(@, Submission(c, FALSE))])
    /\ UNCHANGED <<now, cmsFeeds, cacheVars, batchVars, queueVars, feedDoc, cmsPosts, otherPosts, analysis>>
    /\ UNCHANGED fnVars

\* CreateInspirationFeedPost fails: the post is counted as skipped
CreatePostFail(t) ==
    /\ crawl[t].pc = "create"
    /\ LET c == crawl[t]
       IN  Set(t, [c EXCEPT !.pc = "loop", !.idx = @ + 1,
                            !.result.postsSkipped = @ + 1,
                            !.submitted = Append(@, Submission(c, FALSE))])
    /\ UNCHANGED <<now, cmsFeeds, cacheVars, batchVars, queueVars, feedDoc, cmsPosts, otherPosts, analysis>>
    /\ UNCHANGED fnVars

\* a buggy variant: a failed timestamp update fails the crawl
UpdateLastCrawledFailsCrawl(t) ==
    /\ crawl[t].pc = "update"
    /\ \E ok \in BOOLEAN :
        Set(t, [crawl[t] EXCEPT !.pc = "done", !.result.success = ok,
                                !.updated = IF ok THEN "ok" ELSE "failed"])
    /\ UNCHANGED <<now, cmsFeeds, cacheVars, batchVars, queueVars, feedDoc, cmsPosts, otherPosts, analysis>>
    /\ UNCHANGED fnVars

\* s.cmsClient.UpdateFeedLastCrawledAt, whose failure is only logged; then
\* result.Success = true
UpdateLastCrawled(t) ==
    /\ crawl[t].pc = "update"
    /\ \E ok \in BOOLEAN :
        Set(t, [crawl[t] EXCEPT !.pc = "done", !.result.success = TRUE,
                                !.updated = IF ok THEN "ok" ELSE "failed"])
    /\ UNCHANGED <<now, cmsFeeds, cacheVars, batchVars, queueVars, feedDoc, cmsPosts, otherPosts, analysis>>
    /\ UNCHANGED fnVars

\* The configurations NewService can build: an llmClient exists only when
\* content analysis is enabled.
AnalysisConfigs ==
    { [enabled |-> FALSE, client |-> FALSE],
      [enabled |-> TRUE, client |-> FALSE],
      [enabled |-> TRUE, client |-> TRUE] }

\* a Service, a feed document, and a CMS that holds for the feed nothing or
\* one post of the document, beside none or a hundred posts with other GUIDs
InitCrawl ==
    /\ now = 0
    /\ cmsFeeds = FeedLists
    /\ CacheInit
    /\ BatchInit
    /\ feedDoc \in FeedDocs
    /\ cmsPosts \in {{}, {"g1"}}
    /\ otherPosts \in {0, ExistingPostsLimit}
    /\ analysis \in AnalysisConfigs
    /\ crawl = [t \in Callers |-> NoCrawl]
    /\ QueueIdle

NextCrawl ==
    \/ CrawlStart("scheduler")
    \/ ParseFeedFail("scheduler")
    \/ ParseFeedOK("scheduler")
    \/ ListExistingOK("scheduler")
    \/ ListExistingFail("scheduler")
    \/ NextPost("scheduler")
    \/ ClassifyOK("scheduler")
    \/ ClassifyFail("scheduler")
    \/ CreatePostOK("scheduler")
    \/ CreatePostFail("scheduler")
    \/ UpdateLastCrawled("scheduler")

SpecCrawl == InitCrawl /\ [][NextCrawl]_vars

(***************************************************************************)
(* Service.ProcessQueueRequests, one action per call to a collaborator.    *)
(* The queue poller goroutine and the scheduled tick both run it on the    *)
(* same Service.  The CMS answers a poll (GET) with a request of its       *)
(* queue; the acknowledgment (DELETE) removes the request.                 *)
(***************************************************************************)
SetCycle(c, rec) == cycle' = [cycle EXCEPT ![c] = rec]

\* history: what the cycle did, in order
Did(c, what) == Append(cycle[c].events, what)

\* ProcessQueueRequests is entered
CycleStart(c) ==
    /\ cycle[c].pc \in {"idle", "done"}
    /\ cycle[c].cycles < MaxCycles
    /\ SetCycle(c, [NoCycle EXCEPT !.pc = "poll", !.cycles = cycle[c].cycles + 1])
    /\ UNCHANGED <<now, cmsFeeds, cacheVars, batchVars, crawlVars, cmsQueue, delivered>>
    /\ UNCHANGED fnVars

\* PollCrawlRequest fails: return the wrapped error
PollFail(c) ==
    /\ cycle[c].pc = "poll"
    /\ SetCycle(c, [cycle[c] EXCEPT !.pc = "done", !.err = "error",
                                    !.events = Did(c, "pollFailed")])
    /\ UNCHANGED <<now, cmsFeeds, cacheVars, batchVars, crawlVars, cmsQueue, delivered>>
    /\ UNCHANGED fnVars

\* PollCrawlRequest answers 204, no request available: return nil
PollNone(c) ==
    /\ cycle[c].pc = "poll"
    /\ cmsQueue = {}
    /\ SetCycle(c, [cycle[c] EXCEPT !.pc = "done", !.err = "nil",
                                    !.events = Did(c, "pollNone")])
    /\ UNCHANGED <<now, cmsFeeds, cacheVars, batchVars, crawlVars, cmsQueue, delivered>>
    /\ UNCHANGED fnVars

\* PollCrawlRequest answers with a request of the queue
PollRequest(c) ==
    /\ cycle[c].pc = "poll"
    /\ \E r \in cmsQueue :
        SetCycle(c, [cycle[c] EXCEPT !.pc = "dispatch", !.request = r,
                                     !.events = Did(c, "polled")])
    /\ UNCHANGED <<now, cmsFeeds, cacheVars, batchVars, crawlVars, cmsQueue, delivered>>
    /\ UNCHANGED fnVars

\* a buggy variant: a request of an unknown type is run as a crawl of all
\* due feeds
DispatchUnknownAsAll(c) ==
    /\ cycle[c].pc = "dispatch"
    /\ LET r == cycle[c].request
       IN  IF r.type = "single" /\ r.feedID # "nil"
           THEN /\ SetCycle(c, [cycle[c] EXCEPT !.pc = "crawlFeed", !.arg = r.feedID,
                                                !.events = Did(c, "CrawlFeed")])
                /\ delivered' = [delivered EXCEPT ![r.id].crawls = @ + 1]
           ELSE IF r.type # "single"
           THEN /\ SetCycle(c, [cycle[c] EXCEPT !.pc = "crawlAll",
                                                !.events = Did(c, "CrawlAllDueFeeds")])
                /\ delivered' = [delivered EXCEPT ![r.id].crawls = @ + 1]
           ELSE /\ SetCycle(c, [cycle[c] EXCEPT !.pc = "ack"])
                /\ UNCHANGED delivered
    /\ UNCHANGED <<now, cmsFeeds, cacheVars, batchVars, crawlVars, cmsQueue>>
    /\ UNCHANGED fnVars

\* switch request.Type: "single" calls CrawlFeed with the request's feed id
\* unless the id is missing, "all" calls CrawlAllDueFeeds, any other type is
\* only logged
Dispatch(c) ==
    /\ cycle[c].pc = "dispatch"
    /\ LET r == cycle[c].request
       IN  IF r.type = "single" /\ r.feedID # "nil"
           THEN /\ SetCycle(c, [cycle[c] EXCEPT !.pc = "crawlFeed", !.arg = r.feedID,
                                                !.events = Did(c, "CrawlFeed")])
                /\ delivered' = [delivered EXCEPT ![r.id].crawls = @ + 1]
           ELSE IF r.type = "all"
           THEN /\ SetCycle(c, [cycle[c] EXCEPT !.pc = "crawlAll",
                                                !.events = Did(c, "CrawlAllDueFeeds")])
                /\ delivered' = [delivered EXCEPT ![r.id].crawls = @ + 1]
           ELSE /\ SetCycle(c, [cycle[c] EXCEPT !.pc = "ack"])
                /\ UNCHANGED delivered
    /\ UNCHANGED <<now, cmsFeeds, cacheVars, batchVars, crawlVars, cmsQueue>>
    /\ UNCHANGED fnVars

\* a buggy variant: a crawl that returns an error ends the cycle
CrawlReturnsNoAck(c) ==
    /\ cycle[c].pc \in {"crawlFeed", "crawlAll"}
    /\ \E outcome \in {"crawlError", "crawlFailed", "crawlSucceeded"} :
        SetCycle(c, [cycle[c] EXCEPT !.pc = IF outcome = "crawlError" THEN "done" ELSE "ack",
                                     !.err = IF outcome = "crawlError" THEN "nil" ELSE @,
                                     !.events = Did(c, outcome)])
    /\ UNCHANGED <<now, cmsFeeds, cacheVars, batchVars, crawlVars, cmsQueue, delivered>>
    /\ UNCHANGED fnVars

\* CrawlFeed or CrawlAllDueFeeds returns: an error (only logged), or results
\* that report a failed or a successful crawl
CrawlReturns(c) ==
    /\ cycle[c].pc \in {"crawlFeed", "crawlAll"}
    /\ \E outcome \in {"crawlError", "crawlFailed", "crawlSucceeded"} :
        SetCycle(c, [cycle[c] EXCEPT !.pc = "ack", !.events = Did(c, outcome)])
    /\ UNCHANGED <<now, cmsFeeds, cacheVars, batchVars, crawlVars, cmsQueue, delivered>>
    /\ UNCHANGED fnVars

\* AcknowledgeRequest(request.ID) succeeds: the CMS removes the request; the
\* cycle returns nil
AckOK(c) ==
    /\ cycle[c].pc = "ack"
    /\ cmsQueue' = {r \in cmsQueue : r.id # cycle[c].request.id}
    /\ SetCycle(c, [cycle[c] EXCEPT !.pc = "done", !.err = "nil",
                                    !.acked = Append(@, cycle[c].request.id),
                                    !.events = Did(c, "ack")])
    /\ UNCHANGED <<now, cmsFeeds, cacheVars, batchVars, crawlVars, delivered>>
    /\ UNCHANGED fnVars

\* AcknowledgeRequest fails: a warning; the cycle returns nil
AckFail(c) ==
    /\ cycle[c].pc = "ack"
    /\ delivered' = [delivered EXCEPT ![cycle[c].request.id].ackFailed = TRUE]
    /\ SetCycle(c, [cycle[c] EXCEPT !.pc = "done", !.err = "nil",
                                    !.acked = Append(@, cycle[c].request.id),
                                    !.events = Did(c, "ackFailed")])
    /\ UNCHANGED <<now, cmsFeeds, cacheVars, batchVars, crawlVars, cmsQueue>>
    /\ UNCHANGED fnVars

\* a Service whose CMS queue holds up to MaxPending requests
InitQueue ==
    /\ now = 0
    /\ cmsFeeds = FeedLists
    /\ CacheInit
    /\ BatchInit
    /\ CrawlIdle
    /\ cmsQueue \in {q \in SUBSET Requests : Cardinality(q) <= MaxPending}
    /\ cycle = [c \in Callers |-> NoCycle]
    /\ delivered = NotDelivered
    /\ fnCall = NoCall
    /\ fnResult = "none"

NextQueue ==
    \/ \E c \in Callers : CycleStart(c)
    \/ \E c \in Callers : PollFail(c)
    \/ \E c \in Callers : PollNone(c)
    \/ \E c \in Callers : PollRequest(c)
    \/ \E c \in Callers : Dispatch(c)
    \/ \E c \in Callers : CrawlReturns(c)
    \/ \E c \in Callers : AckOK(c)
    \/ \E c \in Callers : AckFail(c)

SpecQueue == InitQueue /\ [][NextQueue]_vars

\* the steps of the goroutine that called CrawlAllDueFeeds
BatchCallerStep(t) ==
    \/ BatchStart(t)
    \/ RLock(t)
    \/ FirstCheck(t)
    \/ LockBegin(t)
    \/ LockAcquire(t)
    \/ DoubleCheck(t)
    \/ FetchOK(t)
    \/ FetchFail(t)
    \/ BatchGetFeedsFailed(t)
    \/ BatchFilter(t)
    \/ BatchSpawn(t)
    \/ BatchWait(t)

\* the steps of the i-th goroutine of the batch
WorkerStep(t, i) ==
    \/ WorkerAcquire(t, i)
    \/ WorkerCrawl(t, i)
    \/ WorkerRelease(t, i)
    \/ WorkerStore(t, i)

\* The Go scheduler runs every goroutine that can take a step, and every call
\* to a collaborator returns: each goroutine is weakly fair.
BatchFairness ==
    /\ WF_vars(BatchCallerStep("scheduler"))
    /\ \A i \in Workers : WF_vars(WorkerStep("scheduler", i))

SpecBatchLive == InitService /\ [][NextBatch]_vars /\ BatchFairness

\* C13: every CrawlAllDueFeeds invocation eventually returns, provided each
\* per-feed crawl terminates, for any number of due feeds, more than 3
\* included.
C13_BatchReturns ==
    (bpc["scheduler"] = "getFeeds") ~> (bpc["scheduler"] = "returned")

\* C13 witness: a batch of more than 3 due feeds has returned its results
C13_Witness ==
    /\ bpc["scheduler"] = "returned"
    /\ bret["scheduler"] = "ok"
    /\ Len(dueFeeds["scheduler"]) > MaxConcurrent
    /\ Len(results["scheduler"]) = Len(dueFeeds["scheduler"])

(***************************************************************************)
(* InspirationFeed.IsDue as a function of the feed definition and the      *)
(* clock.                                                                  *)
(***************************************************************************)
\* the feed definitions IsDue is applied to: active or not, never crawled,
\* with a last-crawled string that is not RFC 3339, or crawled at some minute
IsDueFeeds ==
    [id : {1}, isActive : BOOLEAN,
     lastCrawledAt : {NeverCrawled, BadTimestamp} \cup 0..MaxClock,
     crawlIntervalMinutes : 0..MaxInterval]

\* f.IsDue() is called and returns
CallIsDue ==
    /\ fnCall.fn = "IsDue"
    /\ fnResult = "none"
    /\ fnResult' = IF IsDue(fnCall.feed) THEN "true" ELSE "false"
    /\ UNCHANGED <<now, cmsFeeds, cacheVars, batchVars, crawlVars, queueVars, fnCall>>

InitIsDue ==
    /\ now \in 0..MaxClock
    /\ cmsFeeds = FeedLists
    /\ CacheInit
    /\ BatchInit
    /\ CrawlIdle
    /\ cmsQueue = {}
    /\ cycle = [c \in Callers |-> NoCycle]
    /\ delivered = NotDelivered
    /\ fnCall \in [fn : {"IsDue"}, feed : IsDueFeeds]
    /\ fnResult = "none"

NextIsDue == CallIsDue

SpecIsDue == InitIsDue /\ [][NextIsDue]_vars

\* C18 as stated: IsDue returns true exactly when the feed is active and
\* either has no last-crawled timestamp or at least crawl-interval minutes
\* have passed since its last-crawled timestamp.
C18_IsDueAsStated ==
    LET f == fnCall.feed
    IN  fnResult # "none" =>
            (fnResult = "true" <=>
                /\ f.isActive
                /\ \/ f.lastCrawledAt = NeverCrawled
                   \/ /\ f.lastCrawledAt >= 0
                      /\ now - f.lastCrawledAt >= f.crawlIntervalMinutes)

\* C18, amended: IsDue returns true exactly when the feed is active and
\* either has no last-crawled timestamp, or has one that is not an RFC 3339
\* time, or at least crawl-interval minutes have passed since it.
C18_IsDue ==
    LET f == fnCall.feed
    IN  fnResult # "none" =>
            (fnResult = "true" <=>
                /\ f.isActive
                /\ \/ f.lastCrawledAt = NeverCrawled
                   \/ f.lastCrawledAt = BadTimestamp
                   \/ /\ f.lastCrawledAt >= 0
                      /\ now - f.lastCrawledAt >= f.crawlIntervalMinutes)

\* C18 witness: IsDue answered true for an active feed whose last-crawled
\* string cannot be parsed
C18_Witness ==
    /\ fnCall.fn = "IsDue"
    /\ fnCall.feed.isActive
    /\ fnCall.feed.lastCrawledAt = BadTimestamp
    /\ fnResult = "true"

(***************************************************************************)
(* ContentExtractor.matchesSelector.  A string is the sequence of its      *)
(* characters; a DOM node is given with its ancestors, root first.         *)
(***************************************************************************)
\* the index of the first character of s outside set, Len(s) + 1 if none
FirstOutside(s, set) ==
    IF \A i \in 1..Len(s) : s[i] \in set THEN Len(s) + 1
    ELSE CHOOSE i \in 1..Len(s) : s[i] \notin set /\ \A j \in 1..(i - 1) : s[j] \in set

\* the index of the last character of s outside set, 0 if none
LastOutside(s, set) ==
    IF \A i \in 1..Len(s) : s[i] \in set THEN 0
    ELSE CHOOSE i \in 1..Len(s) : s[i] \notin set /\ \A j \in (i + 1)..Len(s) : s[j] \in set

\* strings.Trim(s, cutset)
Trim(s, set) == SubSeq(s, FirstOutside(s, set), LastOutside(s, set))

\* strings.TrimSpace(s)
TrimSpace(s) == Trim(s, {" "})

\* strings.HasPrefix(s, prefix) and strings.HasSuffix(s, suffix)
HasPrefix(s, prefix) == Len(s) >= Len(prefix) /\ SubSeq(s, 1, Len(prefix)) = prefix

HasSuffix(s, suffix) ==
    Len(s) >= Len(suffix) /\ SubSeq(s, Len(s) - Len(suffix) + 1, Len(s)) = suffix

\* strings.Contains(s, ch) for a one-character ch
Contains(s, ch) == \E i \in 1..Len(s) : s[i] = ch

\* strings.SplitN(s, ch, 2) for an s that contains ch
SplitN2(s, ch) ==
    LET k == FirstOutside(s, {c \in {s[i] : i \in 1..Len(s)} : c # ch})
    IN  <<SubSeq(s, 1, k - 1), SubSeq(s, k + 1, Len(s))>>

\* strings.Fields(s): the maximal runs of non-space characters
RECURSIVE Fields(_)
Fields(s) ==
    LET t == SubSeq(s, FirstOutside(s, {" "}), Len(s))
    IN  IF t = <<>> THEN <<>>
        ELSE LET k == FirstOutside(t, {c \in {t[i] : i \in 1..Len(t)} : c # " "})
             IN  <<SubSeq(t, 1, k - 1)>> \o Fields(SubSeq(t, k, Len(t)))

\* strings.Join(parts, " ")
RECURSIVE Join(_)
Join(parts) ==
    IF Len(parts) = 0 THEN <<>>
    ELSE IF Len(parts) = 1 THEN parts[1]
    ELSE parts[1] \o <<" ">> \o Join(Tail(parts))

\* some attribute of node n has the key, and the value if one is asked for
HasAttr(n, key) == \E i \in 1..Len(n.attr) : n.attr[i].key = key

HasAttrVal(n, key, val) ==
    \E i \in 1..Len(n.attr) : n.attr[i].key = key /\ n.attr[i].val = val

\* a buggy variant: a class selector is compared with the whole class
\* attribute
matchesSimpleSelectorWholeClass(n, selector) ==
    LET sel == TrimSpace(selector)
    IN  IF HasPrefix(sel, <<"[">>) /\ HasSuffix(sel, <<"]">>)
        THEN LET attrPart == Trim(sel, {"[", "]"})
             IN  IF Contains(attrPart, "=")
                 THEN LET parts == SplitN2(attrPart, "=")
                      IN  HasAttrVal(n, TrimSpace(parts[1]),
                                     Trim(TrimSpace(parts[2]), {"'", "\""}))
                 ELSE HasAttr(n, TrimSpace(attrPart))
        ELSE IF HasPrefix(sel, <<"#">>)
        THEN HasAttrVal(n, <<"i", "d">>, Tail(sel))
        ELSE IF HasPrefix(sel, <<".">>)
        THEN HasAttrVal(n, <<"c", "l", "a", "s", "s">>, Tail(sel))
        ELSE n.data = sel

\* ContentExtractor.matchesSimpleSelector
matchesSimpleSelector(n, selector) ==
    LET sel == TrimSpace(selector)
    IN  IF HasPrefix(sel, <<"[">>) /\ HasSuffix(sel, <<"]">>)
        THEN LET attrPart == Trim(sel, {"[", "]"})
             IN  IF Contains(attrPart, "=")
                 THEN LET parts == SplitN2(attrPart, "=")
                      IN  HasAttrVal(n, TrimSpace(parts[1]),
                                     Trim(TrimSpace(parts[2]), {"'", "\""}))
                 ELSE HasAttr(n, TrimSpace(attrPart))
        ELSE IF HasPrefix(sel, <<"#">>)
        THEN HasAttrVal(n, <<"i", "d">>, Tail(sel))
        ELSE IF HasPrefix(sel, <<".">>)
        THEN \E i \in 1..Len(n.attr) :
                /\ n.attr[i].key = <<"c", "l", "a", "s", "s">>
                /\ \E j \in 1..Len(Fields(n.attr[i].val)) : Fields(n.attr[i].val)[j] = Tail(sel)
        ELSE n.data = sel

\* ContentExtractor.matchesDescendantSelector, for the k-th node of the path
RECURSIVE matchesDescendantSelector(_, _, _)
matchesDescendantSelector(path, k, selector) ==
    LET parts == Fields(selector)
    IN  IF Len(parts) < 2 THEN FALSE
        ELSE IF ~matchesSimpleSelector(path[k], parts[Len(parts)]) THEN FALSE
        ELSE IF Len(parts) = 2
        THEN \E j \in 1..(k - 1) : matchesSimpleSelector(path[j], parts[1])
        ELSE \E j \in 1..(k - 1) :
                matchesDescendantSelector(path, j, Join(SubSeq(parts, 1, Len(parts) - 1)))

\* ContentExtractor.matchesSelector, for the k-th node of the path: the
\* attribute, id and class branches (the same code as in
\* matchesSimpleSelector) come before the test for a space
matchesSelector(path, k, selector) ==
    LET sel == TrimSpace(selector)
    IN  IF \/ HasPrefix(sel, <<"[">>) /\ HasSuffix(sel, <<"]">>)
           \/ HasPrefix(sel, <<"#">>)
           \/ HasPrefix(sel, <<".">>)
        THEN matchesSimpleSelector(path[k], sel)
        ELSE IF Contains(sel, " ")
        THEN matchesDescendantSelector(path, k, sel)
        ELSE path[k].data = sel

\* The elements of the documents: tag, class names, id and the value of the
\* attribute k, an empty sequence standing for a missing attribute.
Elements ==
    { [tag |-> <<"a">>, classes |-> << <<"x">>, <<"y">> >>, id |-> <<>>, k |-> <<"w">>],
      [tag |-> <<"b">>, classes |-> <<>>, id |-> <<"m">>, k |-> <<"v">>],
      [tag |-> <<"a">>, classes |-> << <<"x", "y">> >>, id |-> <<>>, k |-> <<>>],
      [tag |-> <<"b">>, classes |-> <<>>, id |-> <<>>, k |-> <<>>] }

\* the html.Node of an element: Data and Attr as the parser builds them
Node(el) ==
    [data |-> el.tag,
     attr |-> (IF el.classes = <<>> THEN <<>>
               ELSE <<[key |-> <<"c", "l", "a", "s", "s">>, val |-> Join(el.classes)]>>)
              \o (IF el.id = <<>> THEN <<>> ELSE <<[key |-> <<"i", "d">>, val |-> el.id]>>)
              \o (IF el.k = <<>> THEN <<>> ELSE <<[key |-> <<"k">>, val |-> el.k]>>)]

\* a node with its ancestors, root first
Paths == UNION {[1..n -> Elements] : n \in 1..MaxDepth}

\* the simple selectors: tag, .class, #id, [attr=value] bare or quoted, [attr]
Component(kind, name, value, quote) ==
    [kind |-> kind, name |-> name, value |-> value, quote |-> quote]

ChainComponents ==
    { Component("tag", <<"a">>, <<>>, <<>>),
      Component("tag", <<"b">>, <<>>, <<>>),
      Component("class", <<"x">>, <<>>, <<>>),
      Component("id", <<"m">>, <<>>, <<>>),
      Component("attrEq", <<"k">>, <<"v">>, <<>>),
      Component("attr", <<"k">>, <<>>, <<>>) }

SimpleComponents ==
    ChainComponents \cup
    { Component("attrEq", <<"k">>, <<"v">>, <<"'">>),
      Component("attrEq", <<"k">>, <<"v">>, <<"\"">>),
      Component("attr", <<"i", "d">>, <<>>, <<>>) }

\* the selector string of a component
Render(c) ==
    IF c.kind = "tag" THEN c.name
    ELSE IF c.kind = "class" THEN <<".">> \o c.name
    ELSE IF c.kind = "id" THEN <<"#">> \o c.name
    ELSE IF c.kind = "attrEq"
    THEN <<"[">> \o c.name \o <<"=">> \o c.quote \o c.value \o c.quote \o <<"]">>
    ELSE <<"[">> \o c.name \o <<"]">>

\* the selector string of a chain of components
RenderChain(comps) == Join([i \in 1..Len(comps) |-> Render(comps[i])])

\* the calls of matchesSelector with one simple selector, bare or padded
\* with spaces, and with a chain of 2 to MaxChain simple selectors
SimpleCalls ==
    { [fn |-> "matchesSelector", nodes |-> p, comps |-> <<c>>, selector |-> pad \o Render(c) \o pad] :
        p \in Paths, c \in SimpleComponents, pad \in {<<>>, <<" ">>} }

ChainCalls(len) ==
    { [fn |-> "matchesSelector", nodes |-> p, comps |-> cs, selector |-> RenderChain(cs)] :
        p \in Paths, cs \in UNION {[1..n -> ChainComponents] : n \in 2..len} }

\* ce.matchesSelector(n, selector) is called and returns
CallMatchesSelector ==
    /\ fnCall.fn = "matchesSelector"
    /\ fnResult = "none"
    /\ LET path == [i \in 1..Len(fnCall.nodes) |-> Node(fnCall.nodes[i])]
       IN  fnResult' = IF matchesSelector(path, Len(path), fnCall.selector)
                       THEN "true" ELSE "false"
    /\ UNCHANGED <<now, cmsFeeds, cacheVars, batchVars, crawlVars, queueVars, fnCall>>

\* everything but the pure-function call is idle
ServiceIdle ==
    /\ now = 0
    /\ cmsFeeds = FeedLists
    /\ CacheInit
    /\ BatchInit
    /\ CrawlIdle
    /\ cmsQueue = {}
    /\ cycle = [c \in Callers |-> NoCycle]
    /\ delivered = NotDelivered
    /\ fnResult = "none"

InitSimpleSelector == ServiceIdle /\ fnCall \in SimpleCalls

InitChainSelector == ServiceIdle /\ fnCall \in ChainCalls(MaxChain)

NextSelector == CallMatchesSelector

SpecSimpleSelector == InitSimpleSelector /\ [][NextSelector]_vars

SpecChainSelector == InitChainSelector /\ [][NextSelector]_vars

\* what a simple selector asks of an element
SimpleMatch(el, c) ==
    IF c.kind = "tag" THEN el.tag = c.name
    ELSE IF c.kind = "class" THEN \E i \in 1..Len(el.classes) : el.classes[i] = c.name
    ELSE IF c.kind = "id" THEN el.id # <<>> /\ el.id = c.name
    ELSE IF c.kind = "attrEq" THEN HasAttrVal(Node(el), c.name, c.value)
    ELSE HasAttr(Node(el), c.name)

\* what a chain asks of the k-th element: it matches the last component and
\* some ancestor matches the remainder
RECURSIVE ChainMatch(_, _, _)
ChainMatch(nodes, k, comps) ==
    IF Len(comps) = 1 THEN SimpleMatch(nodes[k], comps[1])
    ELSE /\ SimpleMatch(nodes[k], comps[Len(comps)])
         /\ \E j \in 1..(k - 1) : ChainMatch(nodes, j, SubSeq(comps, 1, Len(comps) - 1))

\* C19: for a selector made of space-separated simple selectors,
\* matchesSelector is true exactly when the node matches the last component
\* and some ancestor matches the remainder, for every kind of simple selector
\* in any position of the chain.
C19_DescendantChains ==
    fnResult # "none" =>
        (fnResult = "true" <=> ChainMatch(fnCall.nodes, Len(fnCall.nodes), fnCall.comps))

\* C20: for a single simple selector, matchesSelector is true exactly when
\* the tag equals a bare tag selector, or the class tokens include the name of
\* a .name selector, or the id equals the value of a #id selector, or the
\* named attribute equals the quote-stripped value of an [attr=value]
\* selector, or is present for an [attr] selector.
C20_SimpleSelectors ==
    fnResult # "none" =>
        (fnResult = "true" <=>
            SimpleMatch(fnCall.nodes[Len(fnCall.nodes)], fnCall.comps[1]))

\* C20 witness: a padded class selector matched an element with two classes
C20_Witness ==
    /\ fnCall.fn = "matchesSelector"
    /\ fnResult = "true"
    /\ Len(fnCall.comps) = 1
    /\ fnCall.comps[1].kind = "class"
    /\ Len(fnCall.nodes[Len(fnCall.nodes)].classes) = 2
    /\ fnCall.selector = <<" ", ".", "x", " ">>

(***************************************************************************)
(* Claims about the Service as a whole (SpecService).                      *)
(***************************************************************************)
\* C11: CrawlAllDueFeeds returns an error only when obtaining the feed set
\* failed, and then has started no per-feed crawl; CrawlFeed returns an error
\* only when fetching the feed definition failed; a failure inside a per-feed
\* crawl is in that feed's CrawlResult and is never a returned error.
C11_ErrorsOnlyAtInitiation ==
    \A t \in Callers :
        /\ bret[t] = "error" =>
            /\ ret[t].status = "error"
            /\ spawned[t] = 0
            /\ wpc[t] = <<>>
        /\ (bpc[t] = "returned" /\ spawned[t] > 0) =>
            /\ bret[t] = "ok"
            /\ \A i \in DOMAIN results[t] : results[t][i] = wres[t][i]
        /\ feedCall[t].err = "error" =>
            /\ feedCall[t].got = "failed"
            /\ feedCall[t].crawl = "none"
        /\ feedCall[t].crawl = "failed" =>
            /\ feedCall[t].err = "nil"
            /\ ~feedCall[t].result.success

\* C11 witness: a batch and a CrawlFeed call have returned without error,
\* each with the result of a failed crawl
C11_Witness ==
    /\ bpc["scheduler"] = "returned"
    /\ bret["scheduler"] = "ok"
    /\ \E i \in DOMAIN results["scheduler"] : ~results["scheduler"][i].success
    /\ feedCall["poller"].pc = "returned"
    /\ feedCall["poller"].crawl = "failed"
    /\ feedCall["poller"].err = "nil"

\* the per-feed crawls in flight in the Service: the batch's goroutines inside
\* crawlSingleFeed and the CrawlFeed calls inside it
ServiceInFlight ==
    Cardinality({<<t, i>> \in Callers \X Workers : i \in InFlight(t)})
        + Cardinality({t \in Callers : feedCall[t].pc = "crawling"})

\* C17: the number of per-feed crawls simultaneously in flight in one Service
\* never exceeds the configured MAX_CONCURRENT_CRAWLS value (default 3), also
\* when a queue-triggered crawl overlaps a scheduled batch.
C17_ServiceWideBound ==
    ServiceInFlight <= MaxConcurrentCrawls

(***************************************************************************)
(* Claims about ProcessQueueRequests (SpecQueue).                          *)
(***************************************************************************)
\* the positions of the cycle's history where AcknowledgeRequest was called
AckEvents(c) ==
    {k \in 1..Len(cycle[c].events) : cycle[c].events[k] \in {"ack", "ackFailed"}}

\* the positions where a crawl was called, and where one returned
CrawlCalls(c) ==
    {k \in 1..Len(cycle[c].events) : cycle[c].events[k] \in {"CrawlFeed", "CrawlAllDueFeeds"}}

CrawlEnds(c) ==
    {k \in 1..Len(cycle[c].events) :
        cycle[c].events[k] \in {"crawlError", "crawlFailed", "crawlSucceeded"}}

\* C5: a cycle whose poll returned a request calls AcknowledgeRequest exactly
\* once, for that request's id, after the dispatch has finished, whether the
\* crawl succeeded, failed or was not run; a cycle whose poll returned no
\* request or an error sends no acknowledgment.
C5_AcknowledgedOnce ==
    \A c \in Callers :
        /\ Cardinality(AckEvents(c)) = Len(cycle[c].acked)
        /\ Len(cycle[c].acked) <= 1
        /\ \A k \in AckEvents(c) :
            /\ cycle[c].events[1] = "polled"
            /\ cycle[c].acked = <<cycle[c].request.id>>
            /\ \A j \in CrawlCalls(c) : \E e \in CrawlEnds(c) : j < e /\ e < k
        /\ cycle[c].pc = "done" =>
            (AckEvents(c) # {} <=> cycle[c].request # NoRequest)

\* C5 witness: a finished cycle whose crawl returned an error and whose
\* request was acknowledged
C5_Witness ==
    \E c \in Callers :
        /\ cycle[c].pc = "done"
        /\ cycle[c].events = <<"polled", "CrawlFeed", "crawlError", "ack">>
        /\ cycle[c].acked = <<1>>

\* C9: a queue request is dispatched to a crawl at most once unless its
\* acknowledgment failed, also when the queue poller and a scheduled tick run
\* ProcessQueueRequests at overlapping times.
C9_DispatchedAtMostOnce ==
    \A r \in Requests :
        delivered[r.id].crawls > 1 => delivered[r.id].ackFailed

(***************************************************************************)
(* Claims about crawlSingleFeed (SpecCrawl).                               *)
(***************************************************************************)
\* the posts of the running crawl already handled by the loop whose GUID is
\* in the map of existing GUIDs
SkippedAsDuplicate(c) ==
    {i \in 1..Len(c.posts) : i < c.idx /\ c.posts[i].guid \in c.existingGUIDs}

\* the submissions of the running crawl that CreateInspirationFeedPost refused
FailedSubmissions(c) ==
    {k \in 1..Len(c.submitted) : ~c.submitted[k].created}

\* C6: a candidate post whose GUID is in the membership set built from the
\* fetched existing posts is never passed to CreateInspirationFeedPost; it is
\* counted in PostsSkipped instead (PostsSkipped is the number of such posts
\* plus the number of refused creations).
C6_DuplicatesSkipped ==
    LET c == crawl["scheduler"]
    IN  /\ \A k \in 1..Len(c.submitted) : c.submitted[k].guid \notin c.existingGUIDs
        /\ c.result.postsSkipped =
              Cardinality(SkippedAsDuplicate(c)) + Cardinality(FailedSubmissions(c))
        /\ c.result.postsAdded = Len(c.submitted) - Cardinality(FailedSubmissions(c))

\* C6 witness: a finished crawl that skipped a post found in the membership
\* set and submitted another one
C6_Witness ==
    LET c == crawl["scheduler"]
    IN  /\ c.pc = "done"
        /\ c.result.success
        /\ SkippedAsDuplicate(c) # {}
        /\ c.result.postsSkipped = 1
        /\ c.result.postsAdded = 1

\* C12: a finished crawl has Success=false exactly when fetching or parsing
\* the feed document failed; a failed listing of existing posts, a failed
\* classifier call, a refused creation or a failed last-crawled update never
\* make the result unsuccessful.
C12_SuccessUnlessParseFailed ==
    LET c == crawl["scheduler"]
    IN  /\ c.pc = "done" => (c.result.success <=> c.parsed # "failed")
        /\ c.pc = "done" => (c.result.failed <=> c.parsed = "failed")
        /\ c.pc # "done" => ~c.result.success

\* C12 witness: a successful crawl whose listing, classifier call, creation
\* and timestamp update all failed
C12_Witness ==
    LET c == crawl["scheduler"]
    IN  /\ c.pc = "done"
        /\ c.result.success
        /\ c.listing = "failed"
        /\ c.updated = "failed"
        /\ \E k \in 1..Len(c.submitted) :
            c.submitted[k].by = "failure" /\ ~c.submitted[k].created

\* C14 as stated: for every crawl that returns Success=true,
\* PostsAdded + PostsSkipped = PostsFound.
C14_AllItemsCounted ==
    LET c == crawl["scheduler"]
    IN  (c.pc = "done" /\ c.result.success) =>
            c.result.postsAdded + c.result.postsSkipped = c.result.postsFound

\* C14, amended: for every crawl that returns Success=true, PostsFound is the
\* number of items of the document, and PostsAdded + PostsSkipped is the
\* number of its items that have both a title and a link, the others being
\* counted in PostsFound only.
C14_CandidatesCounted ==
    LET c == crawl["scheduler"]
    IN  (c.pc = "done" /\ c.result.success) =>
            /\ c.result.postsFound = Len(feedDoc)
            /\ c.result.postsAdded + c.result.postsSkipped =
                  Len(ConvertToInspirationPosts(feedDoc))
            /\ c.result.postsAdded + c.result.postsSkipped <= c.result.postsFound

\* C14 witness: a successful crawl of a document of two items, one without a
\* link, that added or skipped one post
C14_Witness ==
    LET c == crawl["scheduler"]
    IN  /\ c.pc = "done"
        /\ c.result.success
        /\ c.result.postsFound = 2
        /\ c.result.postsAdded + c.result.postsSkipped = 1
        /\ \E i \in 1..Len(feedDoc) : feedDoc[i].link = ""

SubmissionsOf(c, i) == {k \in 1..Len(c.submitted) : c.submitted[k].idx = i}

\* C16: every candidate that is not skipped as a duplicate gets exactly one
\* CreateInspirationFeedPost attempt, whether the classifier succeeded, failed
\* or is disabled; a skipped duplicate gets none.
C16_OneAttemptPerCandidate ==
    LET c == crawl["scheduler"]
    IN  /\ \A i \in 1..Len(c.posts) :
            i < c.idx =>
                Cardinality(SubmissionsOf(c, i)) =
                    IF c.posts[i].guid \in c.existingGUIDs THEN 0 ELSE 1
        /\ \A k \in 1..Len(c.submitted) : c.submitted[k].idx < c.idx
        /\ (c.pc \in {"update", "done"} /\ c.listing # "none") => c.idx = Len(c.posts) + 1

\* C16 witness: a finished crawl of two candidates, the classifier failing
\* for one of them, with one attempt for each
C16_Witness ==
    LET c == crawl["scheduler"]
    IN  /\ c.pc = "done"
        /\ Len(c.posts) = 2
        /\ Len(c.submitted) = 2
        /\ c.submitted[1].idx = 1
        /\ c.submitted[2].idx = 2
        /\ c.submitted[1].by = "failure"
        /\ c.submitted[2].by = "classifier"

\* the GUIDs of the posts of the feed document
DocumentGUIDs ==
    LET posts == ConvertToInspirationPosts(feedDoc)
    IN  {posts[i].guid : i \in 1..Len(posts)}

\* C7: the second of two crawls of the same feed, the CMS holding a post for
\* every GUID of the unchanged document when it starts, adds no post: every
\* item is skipped as a duplicate.
C7_SecondRunAddsNothing ==
    LET c == crawl["scheduler"]
    IN  (/\ c.run = 2
         /\ c.pc = "done"
         /\ c.result.success
         /\ DocumentGUIDs \subseteq c.startGUIDs)
        => (/\ c.result.postsAdded = 0
            /\ c.result.postsSkipped = Len(c.posts))

\* C8: a crawl never submits for creation a post whose GUID belongs to a post
\* the CMS holds for the feed when the crawl starts, whatever the number of
\* stored posts and whether or not the listing of existing posts succeeds.
C8_NoResubmission ==
    LET c == crawl["scheduler"]
    IN  \A k \in 1..Len(c.submitted) : c.submitted[k].guid \notin c.startGUIDs

(***************************************************************************)
(* Claims about the batch, checked under SpecBatch.                        *)
(***************************************************************************)
\* C1: within one CrawlAllDueFeeds invocation at most 3 per-feed crawls are
\* in flight at any moment.
C1_BoundedConcurrency ==
    \A t \in Callers :
        /\ Cardinality(InFlight(t)) <= 3
        /\ Cardinality(InFlight(t)) <= semaphore[t]
        /\ semaphore[t] <= 3

\* three crawls are in flight and a fourth due feed waits for a slot
C1_Witness ==
    \E t \in Callers :
        /\ Cardinality(InFlight(t)) = 3
        /\ \E i \in DOMAIN wpc[t] : wpc[t][i] = "acquire"

\* C2: when CrawlAllDueFeeds returns without error, the result slice has one
\* entry per due feed and entry i carries the FeedID of the i-th due feed, in
\* feed-list order.
C2_ResultOrder ==
    \A t \in Callers :
        (bpc[t] = "returned" /\ bret[t] = "ok") =>
            /\ dueFeeds[t] = SelectSeq(ret[t].feeds, IsDue)
            /\ Len(results[t]) = Len(dueFeeds[t])
            /\ \A i \in 1..Len(dueFeeds[t]) : results[t][i].feedID = dueFeeds[t][i].id

\* a batch returned after its crawls completed out of feed-list order, with
\* feeds that are not due in between the due ones
C2_Witness ==
    \E t \in Callers :
        /\ bpc[t] = "returned" /\ bret[t] = "ok"
        /\ outOfOrder[t]
        /\ Len(dueFeeds[t]) >= 2
        /\ Len(dueFeeds[t]) < Len(ret[t].feeds)
        /\ \A i \in 1..Len(dueFeeds[t]) : results[t][i].feedID = dueFeeds[t][i].id


(***************************************************************************)
(* Claims about the feed cache, checked under SpecCache.                   *)
(***************************************************************************)
\* C3 as stated: a GetFeeds call made within the TTL of the last refresh
\* performs no upstream fetch, whatever feed list that refresh stored.
C3_WithinTTLNeverFetches ==
    \A c \in Callers :
        (pc[c] = "done" /\ hist[c].made \in {"fresh", "emptyInTTL"}) => ~hist[c].didFetch

\* C3 amended: a finished GetFeeds call made within the TTL of a refresh that
\* stored a non-empty list performed no upstream fetch; one made after the TTL
\* expired, or against an empty cached list, saw an upstream fetch happen
\* during the call.
C3_CacheFreshness ==
    \A c \in Callers :
        pc[c] = "done" =>
            /\ hist[c].made = "fresh" => (~hist[c].didFetch /\ ~hist[c].fetchSeen)
            /\ hist[c].made \in {"expired", "emptyInTTL"} => hist[c].fetchSeen

\* a call within the TTL that returned the cached list without fetching,
\* beside a call after expiry that refreshed the cache a second time
C3_Witness ==
    \E c, d \in Callers :
        /\ pc[c] = "done" /\ hist[c].made = "fresh" /\ ~hist[c].didFetch
        /\ pc[d] = "done" /\ hist[d].made = "expired" /\ hist[d].didFetch
        /\ lastUpdate >= TTL

\* C4 as stated: a caller that waited for the exclusive lock while another
\* caller performed the upstream fetch returns without fetching.
C4_OneFetchPerGroup ==
    \A c \in Callers :
        (pc[c] = "done" /\ hist[c].peer.kind # "none") =>
            (~hist[c].didFetch /\ ret[c].status = "ok")

\* C4 amended: at most one caller is fetching at any moment, and a caller that
\* waited while another caller's fetch stored a non-empty list, and re-checked
\* before that refresh's TTL ran out, returns that list without fetching.
C4_SingleFlight ==
    /\ Cardinality({c \in Callers : pc[c] = "fetching"}) <= 1
    /\ \A c \in Callers :
        (pc[c] = "done" /\ hist[c].peer.kind = "okInTime") =>
            (~hist[c].didFetch /\ ret[c] = OkRet(hist[c].peer.list))

\* a caller waited, was covered by another caller's refresh and returned it
C4_Witness ==
    \E c \in Callers :
        /\ pc[c] = "done" /\ hist[c].peer.kind = "okInTime"
        /\ ~hist[c].didFetch /\ ret[c] = OkRet(hist[c].peer.list)

\* C10: a step in which the upstream fetch fails returns the error to the
\* caller and leaves the cached feed list and the refresh time as they were,
\* and for as long as the latest fetch is a failed one the cache is not fresh,
\* so the next GetFeeds call fetches again.
C10_FailedRefreshKeepsCache ==
    /\ [][\A c \in Callers :
            (pc[c] = "fetching" /\ pc'[c] = "done" /\ lastFetch' = "failed") =>
                (ret'[c] = ErrRet /\ feeds' = feeds /\ lastUpdate' = lastUpdate)]_vars
    /\ [](lastFetch = "failed" => ~CacheFresh)

\* a refresh of a stale, non-empty cache failed and the error was returned
C10_Witness ==
    \E c \in Callers :
        /\ pc[c] = "done" /\ ret[c] = ErrRet /\ hist[c].didFetch
        /\ lastFetch = "failed" /\ Len(feeds) > 0 /\ Since(lastUpdate) >= TTL

(***************************************************************************)
(* ContentExtractor.isGoodContent.  A content string is given as blocks,   *)
(* each a unit of markup repeated count times (strings.Repeat); the text   *)
(* extracted from it is kept in the same run-length form.  Every unit has  *)
(* balanced tags and its text, when not empty, starts with a letter and    *)
(* ends with one space, so that no word and no keyword spans two units.    *)
(***************************************************************************)
\* how many blocks a content string has at most
MaxBlocks == 2

\* the least length of the text and the least number of words
MinTextLength == 100

MinWords == 20

\* the units, each with what a reader sees of it: the characters of visible
\* text (its closing space included), the words and the navigation keywords
ContentUnits ==
    { [raw |-> <<"w", "o", "r", "d", "s", " ">>, visible |-> 6, words |-> 1, navs |-> 0],
      [raw |-> <<"w", "o", "r", "d", " ">>, visible |-> 5, words |-> 1, navs |-> 0],
      [raw |-> <<"M", "e", "n", "u", " ">>, visible |-> 5, words |-> 1, navs |-> 1],
      [raw |-> <<"f", "o", "l", "l", "o", "w", " ", "u", "s", " ">>, visible |-> 10, words |-> 2, navs |-> 1],
      [raw |-> <<"<", "p", ">", "<", "/", "p", ">">>, visible |-> 0, words |-> 0, navs |-> 0],
      [raw |-> <<"<", "s", "c", "r", "i", "p", "t", ">", "m", "e", "n", "u", "<", "/", "s", "c", "r", "i", "p", "t", ">">>, visible |-> 0, words |-> 0, navs |-> 0] }

\* the repetition counts, on both sides of each threshold
RepeatCounts == {1, 5, 6, 19, 20, 152, 153}

\* the content strings of at most len blocks
Contents(len) ==
    UNION {[1..n -> [unit : ContentUnits, count : RepeatCounts]] : n \in 0..len}

RECURSIVE SumSeq(_)
SumSeq(s) == IF s = <<>> THEN 0 ELSE Head(s) + SumSeq(Tail(s))

\* len(content)
RawLen(content) ==
    SumSeq([i \in 1..Len(content) |-> content[i].count * Len(content[i].unit.raw)])

\* the text of the nodes of one unit, script and style elements left out
RECURSIVE extractText(_)
extractText(s) ==
    IF s = <<>> THEN <<>>
    ELSE IF \E t \in {<<"s", "c", "r", "i", "p", "t">>, <<"s", "t", "y", "l", "e">>} : HasPrefix(s, <<"<">> \o t \o <<">">>)
    THEN LET t == CHOOSE t \in {<<"s", "c", "r", "i", "p", "t">>, <<"s", "t", "y", "l", "e">>} : HasPrefix(s, <<"<">> \o t \o <<">">>)
             end == <<"<", "/">> \o t \o <<">">>
             k == CHOOSE i \in 1..Len(s) :
                      /\ HasPrefix(SubSeq(s, i, Len(s)), end)
                      /\ \A j \in 1..(i - 1) : ~HasPrefix(SubSeq(s, j, Len(s)), end)
         IN  extractText(SubSeq(s, k + Len(end), Len(s)))
    ELSE IF s[1] = "<"
    THEN extractText(SubSeq(s, FirstOutside(s, {c \in {s[i] : i \in 1..Len(s)} : c # ">"}) + 1, Len(s)))
    ELSE <<s[1]>> \o extractText(Tail(s))

\* ContentExtractor.extractTextFromHTML: the runs of text, empty ones dropped
extractTextFromHTML(content) ==
    LET runs == [i \in 1..Len(content) |->
                    [piece |-> extractText(content[i].unit.raw), count |-> content[i].count]]
    IN  SelectSeq(runs, LAMBDA r : r.piece # <<>>)

\* strings.TrimSpace of a run-length text: the first copy of the first run
\* loses its leading spaces, the last copy of the last run its trailing ones
RunTrimSpace(text) ==
    IF text = <<>> THEN <<>>
    ELSE LET n == Len(text)
             first == text[1]
             withHead == <<[piece |-> SubSeq(first.piece, FirstOutside(first.piece, {" "}), Len(first.piece)),
                            count |-> 1],
                           [piece |-> first.piece, count |-> first.count - 1]>>
                         \o Tail(text)
             m == Len(withHead)
             last == withHead[m]
         IN  IF last.count = 0
             THEN <<[piece |-> SubSeq(withHead[1].piece, 1, LastOutside(withHead[1].piece, {" "})),
                     count |-> 1]>>
             ELSE SubSeq(withHead, 1, m - 1)
                  \o <<[piece |-> last.piece, count |-> last.count - 1],
                       [piece |-> SubSeq(last.piece, 1, LastOutside(last.piece, {" "})), count |-> 1]>>

\* len(text)
RunLen(text) == SumSeq([i \in 1..Len(text) |-> text[i].count * Len(text[i].piece)])

\* len(strings.Fields(text))
RunFields(text) == SumSeq([i \in 1..Len(text) |-> text[i].count * Len(Fields(text[i].piece))])

\* strings.ToLower, for the capitals the units have
ToLower(s) ==
    [i \in 1..Len(s) |-> IF s[i] = "M" THEN "m" ELSE s[i]]

\* strings.Count(s, sub): the occurrences of sub in s that do not overlap
RECURSIVE Count(_, _)
Count(s, sub) ==
    IF Len(s) < Len(sub) THEN 0
    ELSE IF HasPrefix(s, sub) THEN 1 + Count(SubSeq(s, Len(sub) + 1, Len(s)), sub)
    ELSE Count(Tail(s), sub)

navWords ==
    << <<"m", "e", "n", "u">>,
       <<"n", "a", "v", "i", "g", "a", "t", "i", "o", "n">>,
       <<"s", "u", "b", "s", "c", "r", "i", "b", "e">>,
       <<"n", "e", "w", "s", "l", "e", "t", "t", "e", "r">>,
       <<"f", "o", "l", "l", "o", "w", " ", "u", "s">>,
       <<"s", "o", "c", "i", "a", "l", " ", "m", "e", "d", "i", "a">>,
       <<"s", "h", "a", "r", "e", " ", "t", "h", "i", "s">> >>

\* strings.Count(strings.ToLower(text), navWord)
RunCount(text, navWord) ==
    SumSeq([i \in 1..Len(text) |-> text[i].count * Count(ToLower(text[i].piece), navWord)])

\* a buggy variant: the text is measured before it is trimmed
isGoodContentUntrimmed(content) ==
    IF RawLen(content) = 0 THEN FALSE
    ELSE LET textContent == extractTextFromHTML(content)
             words == RunFields(textContent)
             navWordCount == SumSeq([i \in 1..Len(navWords) |-> RunCount(textContent, navWords[i])])
         IN  IF RunLen(textContent) < MinTextLength THEN FALSE
             ELSE IF words < MinWords THEN FALSE
             ELSE IF 10 * RunLen(textContent) < RawLen(content) THEN FALSE
             ELSE IF 5 * navWordCount > words THEN FALSE
             ELSE TRUE

\* ContentExtractor.isGoodContent; the two float64 quotients are compared
\* with 0.1 and 0.2 as the integers they are quotients of
isGoodContent(content) ==
    IF RawLen(content) = 0 THEN FALSE
    ELSE LET textContent == RunTrimSpace(extractTextFromHTML(content))
             words == RunFields(textContent)
             navWordCount == SumSeq([i \in 1..Len(navWords) |-> RunCount(textContent, navWords[i])])
         IN  IF RunLen(textContent) < MinTextLength THEN FALSE
             ELSE IF words < MinWords THEN FALSE
             ELSE IF 10 * RunLen(textContent) < RawLen(content) THEN FALSE
             ELSE IF 5 * navWordCount > words THEN FALSE
             ELSE TRUE

\* ce.isGoodContent(content) is called and returns
CallIsGoodContent ==
    /\ fnCall.fn = "isGoodContent"
    /\ fnResult = "none"
    /\ fnResult' = IF isGoodContent(fnCall.content) THEN "true" ELSE "false"
    /\ UNCHANGED <<now, cmsFeeds, cacheVars, batchVars, crawlVars, queueVars, fnCall>>

InitGoodContent ==
    /\ ServiceIdle
    /\ fnCall \in [fn : {"isGoodContent"}, content : Contents(MaxBlocks)]

NextGoodContent == CallIsGoodContent

SpecGoodContent == InitGoodContent /\ [][NextGoodContent]_vars

\* what a reader sees of a content string
Seen(content, field) ==
    SumSeq([i \in 1..Len(content) |-> content[i].count * content[i].unit[field]])

\* the visible text without the space that closes it
VisibleLen(content) ==
    IF Seen(content, "visible") = 0 THEN 0 ELSE Seen(content, "visible") - 1

MaxDates == 2

Num(d, n) == [t |-> "num", digits |-> d, n |-> n]

Lit(c) == [t |-> "lit", c |-> c]

Word(s) == [t |-> "word", s |-> s]

\* a field of a layout, named by its text in the reference time
Std(s) == [t |-> "std", s |-> s]

\* the layouts parseRSSDate tries, in its order
RFC3339 ==
    <<Std("2006"), Lit("-"), Std("01"), Lit("-"), Std("02"), Lit("T"), Std("15"), Lit(":"), Std("04"), Lit(":"), Std("05"), Std("Z07:00")>>

RFC3339Nano ==
    <<Std("2006"), Lit("-"), Std("01"), Lit("-"), Std("02"), Lit("T"), Std("15"), Lit(":"), Std("04"), Lit(":"), Std("05"),
      Std(".999999999"), Std("Z07:00")>>

RFC1123Z ==
    <<Std("Mon"), Lit(","), Lit(" "), Std("02"), Lit(" "), Std("Jan"), Lit(" "), Std("2006"), Lit(" "),
      Std("15"), Lit(":"), Std("04"), Lit(":"), Std("05"), Lit(" "), Std("-0700")>>

RFC1123 ==
    <<Std("Mon"), Lit(","), Lit(" "), Std("02"), Lit(" "), Std("Jan"), Lit(" "), Std("2006"), Lit(" "),
      Std("15"), Lit(":"), Std("04"), Lit(":"), Std("05"), Lit(" "), Std("MST")>>

formats ==
    << RFC3339,
       RFC3339Nano,
       RFC1123Z,
       RFC1123,
       <<Std("2006"), Lit("-"), Std("01"), Lit("-"), Std("02"), Lit("T"), Std("15"), Lit(":"), Std("04"), Lit(":"), Std("05"), Std("-07:00")>>,
       <<Std("2006"), Lit("-"), Std("01"), Lit("-"), Std("02"), Lit("T"), Std("15"), Lit(":"), Std("04"), Lit(":"), Std("05"), Std(".000"), Lit("Z")>>,
       <<Std("2006"), Lit("-"), Std("01"), Lit("-"), Std("02"), Lit(" "), Std("15"), Lit(":"), Std("04"), Lit(":"), Std("05"), Lit(" "), Std("-0700")>>,
       <<Std("2006"), Lit("-"), Std("01"), Lit("-"), Std("02"), Lit(" "), Std("15"), Lit(":"), Std("04"), Lit(":"), Std("05")>>,
       <<Std("Mon"), Lit(","), Lit(" "), Std("2"), Lit(" "), Std("Jan"), Lit(" "), Std("2006"), Lit(" "),
         Std("15"), Lit(":"), Std("04"), Lit(":"), Std("05"), Lit(" "), Std("-0700")>>,
       <<Std("Mon"), Lit(","), Lit(" "), Std("2"), Lit(" "), Std("Jan"), Lit(" "), Std("2006"), Lit(" "),
         Std("15"), Lit(":"), Std("04"), Lit(":"), Std("05"), Lit(" "), Std("MST")>> >>

ShortDayNames == {"Sun", "Mon", "Tue", "Wed", "Thu", "Fri", "Sat"}

ShortMonthNames ==
    <<"Jan", "Feb", "Mar", "Apr", "May", "Jun", "Jul", "Aug", "Sep", "Oct", "Nov", "Dec">>

\* the days of each month of a year that is not a leap year
DaysIn == <<31, 28, 31, 30, 31, 30, 31, 31, 30, 31, 30, 31>>

RECURSIVE DaysBefore(_)
DaysBefore(month) == IF month = 1 THEN 0 ELSE DaysIn[month - 1] + DaysBefore(month - 1)

\* the fields of the zero time, before any piece is read
NoFields == [year |-> 0, month |-> 1, day |-> 1, hour |-> 0, min |-> 0, sec |-> 0, offset |-> 0]

ParseFailed == [ok |-> FALSE]

\* one piece of the value is a run of digits of one of these widths
IsNum(value, widths) ==
    Len(value) >= 1 /\ value[1].t = "num" /\ value[1].digits \in widths

\* the value begins with a sign, two digits, a colon and two digits
IsColonZone(value) ==
    /\ Len(value) >= 4
    /\ value[1].t = "lit" /\ value[1].c \in {"+", "-"}
    /\ value[2].t = "num" /\ value[2].digits = 2
    /\ value[3] = Lit(":")
    /\ value[4].t = "num" /\ value[4].digits = 2

Sign(piece) == IF piece.c = "-" THEN -1 ELSE 1

\* time.Parse: the fields read from the value under the layout, or a failure
RECURSIVE parseFields(_, _, _)
parseFields(layout, value, f) ==
    IF layout = <<>>
    THEN IF value = <<>> THEN [ok |-> TRUE, fields |-> f] ELSE ParseFailed
    ELSE LET std == Head(layout)
             rest == Tail(layout)
         IN  IF std.t = "lit"
             THEN IF Len(value) >= 1 /\ value[1] = std
                  THEN parseFields(rest, Tail(value), f) ELSE ParseFailed
             ELSE IF std = Std("2006")
             THEN IF IsNum(value, {4})
                  THEN parseFields(rest, Tail(value), [f EXCEPT !.year = value[1].n])
                  ELSE ParseFailed
             ELSE IF std = Std("01")
             THEN IF IsNum(value, {2}) /\ value[1].n \in 1..12
                  THEN parseFields(rest, Tail(value), [f EXCEPT !.month = value[1].n])
                  ELSE ParseFailed
             ELSE IF std = Std("Jan")
             THEN IF /\ Len(value) >= 1 /\ value[1].t = "word"
                     /\ \E m \in 1..12 : ShortMonthNames[m] = value[1].s
                  THEN parseFields(rest, Tail(value),
                         [f EXCEPT !.month = CHOOSE m \in 1..12 : ShortMonthNames[m] = value[1].s])
                  ELSE ParseFailed
             ELSE IF std = Std("Mon")
             THEN IF Len(value) >= 1 /\ value[1].t = "word" /\ value[1].s \in ShortDayNames
                  THEN parseFields(rest, Tail(value), f) ELSE ParseFailed
             ELSE IF std \in {Std("02"), Std("2")}
             THEN IF IsNum(value, IF std = Std("02") THEN {2} ELSE {1, 2})
                  THEN parseFields(rest, Tail(value), [f EXCEPT !.day = value[1].n])
                  ELSE ParseFailed
             ELSE IF std = Std("15")
             THEN IF IsNum(value, {1, 2}) /\ value[1].n < 24
                  THEN parseFields(rest, Tail(value), [f EXCEPT !.hour = value[1].n])
                  ELSE ParseFailed
             ELSE IF std = Std("04")
             THEN IF IsNum(value, {2}) /\ value[1].n < 60
                  THEN parseFields(rest, Tail(value), [f EXCEPT !.min = value[1].n])
                  ELSE ParseFailed
             ELSE IF std = Std("05")
             THEN IF IsNum(value, {2}) /\ value[1].n < 60
                  THEN LET after == Tail(value)
                           \* a fraction the layout does not ask for is read
                           \* with the seconds
                           fraction == /\ Len(after) >= 2 /\ after[1] = Lit(".") /\ after[2].t = "num"
                                       /\ ~(rest # <<>> /\ Head(rest) \in {Std(".000"), Std(".999999999")})
                       IN  parseFields(rest, IF fraction THEN SubSeq(after, 3, Len(after)) ELSE after,
                                       [f EXCEPT !.sec = value[1].n])
                  ELSE ParseFailed
             ELSE IF std = Std(".000")
             THEN IF Len(value) >= 2 /\ value[1] = Lit(".") /\ value[2].t = "num" /\ value[2].digits = 3
                  THEN parseFields(rest, SubSeq(value, 3, Len(value)), f) ELSE ParseFailed
             ELSE IF std = Std(".999999999")
             THEN IF Len(value) >= 2 /\ value[1] = Lit(".") /\ value[2].t = "num"
                  THEN parseFields(rest, SubSeq(value, 3, Len(value)), f)
                  ELSE parseFields(rest, value, f)
             ELSE IF std = Std("Z07:00") /\ Len(value) >= 1 /\ value[1] = Lit("Z")
             THEN parseFields(rest, Tail(value), [f EXCEPT !.offset = 0])
             ELSE IF std \in {Std("Z07:00"), Std("-07:00")}
             THEN IF IsColonZone(value)
                  THEN parseFields(rest, SubSeq(value, 5, Len(value)),
                         [f EXCEPT !.offset = Sign(value[1]) * (value[2].n * 3600 + value[4].n * 60)])
                  ELSE ParseFailed
             ELSE IF std = Std("-0700")
             THEN IF /\ Len(value) >= 2 /\ value[1].t = "lit" /\ value[1].c \in {"+", "-"}
                     /\ value[2].t = "num" /\ value[2].digits = 4
                  THEN parseFields(rest, SubSeq(value, 3, Len(value)),
                         [f EXCEPT !.offset = Sign(value[1]) *
                              ((value[2].n \div 100) * 3600 + (value[2].n % 100) * 60)])
                  ELSE ParseFailed
             ELSE \* "MST": a zone name; UTC and GMT are zero offsets
                  IF Len(value) >= 1 /\ value[1].t = "word" /\ value[1].s \in {"UTC", "GMT"}
                  THEN parseFields(rest, Tail(value), [f EXCEPT !.offset = 0])
                  ELSE ParseFailed

\* a buggy variant: the offset of the zone is read and dropped
InstantOfWallClock(f) ==
    (((f.year - 2006) * 365 + DaysBefore(f.month) + (f.day - 1)) * 24 + f.hour) * 3600
        + f.min * 60 + f.sec

\* the instant of the fields read, which are a wall clock and its offset
\* from UTC
Instant(f) ==
    (((f.year - 2006) * 365 + DaysBefore(f.month) + (f.day - 1)) * 24 + f.hour) * 3600
        + f.min * 60 + f.sec - f.offset

\* time.Parse(format, dateStr)
Parse(format, dateStr) ==
    LET r == parseFields(format, dateStr, NoFields)
    IN  IF r.ok /\ r.fields.day \in 1..DaysIn[r.fields.month]
        THEN [ok |-> TRUE, instant |-> Instant(r.fields)]
        ELSE ParseFailed

\* parseRSSDate: the result of the first layout that parses the string
parseRSSDate(dateStr) ==
    IF \E i \in 1..Len(formats) : Parse(formats[i], dateStr).ok
    THEN Parse(formats[CHOOSE i \in 1..Len(formats) :
                   /\ Parse(formats[i], dateStr).ok
                   /\ \A j \in 1..(i - 1) : ~Parse(formats[j], dateStr).ok], dateStr)
    ELSE ParseFailed

\* the three literals of the claim
RSSLiteral ==
    <<Word("Mon"), Lit(","), Lit(" "), Num(2, 2), Lit(" "), Word("Jan"), Lit(" "), Num(4, 2006),
      Lit(" "), Num(2, 15), Lit(":"), Num(2, 4), Lit(":"), Num(2, 5), Lit(" "), Lit("-"), Num(4, 700)>>

AtomLiteral ==
    <<Num(4, 2006), Lit("-"), Num(2, 1), Lit("-"), Num(2, 2), Lit("T"),
      Num(2, 15), Lit(":"), Num(2, 4), Lit(":"), Num(2, 5), Lit("Z")>>

PlainLiteral ==
    <<Num(4, 2006), Lit("-"), Num(2, 1), Lit("-"), Num(2, 2), Lit(" "),
      Num(2, 15), Lit(":"), Num(2, 4), Lit(":"), Num(2, 5)>>

\* the date strings: the literals, and others of feeds
DateStrings ==
    { RSSLiteral, AtomLiteral, PlainLiteral,
      \* "Mon, 02 Jan 2006 22:04:05 GMT"
      <<Word("Mon"), Lit(","), Lit(" "), Num(2, 2), Lit(" "), Word("Jan"), Lit(" "), Num(4, 2006),
        Lit(" "), Num(2, 22), Lit(":"), Num(2, 4), Lit(":"), Num(2, 5), Lit(" "), Word("GMT")>>,
      \* "Tue, 3 Jan 2006 00:04:05 +0200"
      <<Word("Tue"), Lit(","), Lit(" "), Num(1, 3), Lit(" "), Word("Jan"), Lit(" "), Num(4, 2006),
        Lit(" "), Num(2, 0), Lit(":"), Num(2, 4), Lit(":"), Num(2, 5), Lit(" "), Lit("+"), Num(4, 200)>>,
      \* "2006-01-02T15:04:05-07:00"
      <<Num(4, 2006), Lit("-"), Num(2, 1), Lit("-"), Num(2, 2), Lit("T"),
        Num(2, 15), Lit(":"), Num(2, 4), Lit(":"), Num(2, 5), Lit("-"), Num(2, 7), Lit(":"), Num(2, 0)>>,
      \* "2006-01-02T15:04:05.000Z"
      <<Num(4, 2006), Lit("-"), Num(2, 1), Lit("-"), Num(2, 2), Lit("T"),
        Num(2, 15), Lit(":"), Num(2, 4), Lit(":"), Num(2, 5), Lit("."), Num(3, 0), Lit("Z")>>,
      \* "2006-02-30 15:04:05", a day the month does not have
      <<Num(4, 2006), Lit("-"), Num(2, 2), Lit("-"), Num(2, 30), Lit(" "),
        Num(2, 15), Lit(":"), Num(2, 4), Lit(":"), Num(2, 5)>>,
      \* "02 Jan 2006"
      <<Num(2, 2), Lit(" "), Word("Jan"), Lit(" "), Num(4, 2006)>>,
      \* "yesterday"
      <<Word("yesterday")>> }

\* the runs: the three literals in some order, or MaxDates strings of feeds
DateRuns(len) ==
    { <<RSSLiteral, AtomLiteral, PlainLiteral>>, <<PlainLiteral, RSSLiteral, AtomLiteral>> }
        \cup UNION {[1..n -> DateStrings] : n \in 1..len}

\* parseRSSDate is called with the next string of the run and returns; the
\* results of the run are kept with it
CallParseRSSDate ==
    /\ fnCall.fn = "parseRSSDate"
    /\ Len(fnCall.results) < Len(fnCall.dates)
    /\ LET r == parseRSSDate(fnCall.dates[Len(fnCall.results) + 1])
       IN  /\ fnCall' = [fnCall EXCEPT !.results = Append(@, r)]
           /\ fnResult' = IF r.ok THEN "ok" ELSE "error"
    /\ UNCHANGED <<now, cmsFeeds, cacheVars, batchVars, crawlVars, queueVars>>

InitParseRSSDate ==
    /\ ServiceIdle
    /\ fnCall \in [fn : {"parseRSSDate"}, dates : DateRuns(MaxDates), results : {<<>>}]

NextParseRSSDate == CallParseRSSDate

SpecParseRSSDate == InitParseRSSDate /\ [][NextParseRSSDate]_vars

\* the results of the run's strings that are one of the three literals
LiteralResults ==
    IF fnCall.fn # "parseRSSDate" THEN {}
    ELSE { i \in 1..Len(fnCall.results) : fnCall.dates[i] \in {RSSLiteral, AtomLiteral, PlainLiteral} }

\* C22 as stated: parseRSSDate succeeds on each of the three literals and the
\* three results denote the same instant in UTC.
C22_SameInstant ==
    \A i, j \in LiteralResults :
        /\ fnCall.results[i].ok
        /\ fnCall.results[j].ok
        /\ fnCall.results[i].instant = fnCall.results[j].instant

\* C22, amended: parseRSSDate succeeds on each of the three literals;
\* "2006-01-02T15:04:05Z" and "2006-01-02 15:04:05" denote 15:04:05 UTC of
\* 2 January 2006, and "Mon, 02 Jan 2006 15:04:05 -0700" denotes the instant
\* seven hours later, 22:04:05 UTC.
C22_LiteralInstants ==
    \* 2006-01-02 15:04:05 UTC, in seconds since 2006-01-01T00:00:00Z
    LET reference == ((1 * 24 + 15) * 60 + 4) * 60 + 5
    IN  \A i \in LiteralResults :
            /\ fnCall.results[i].ok
            /\ fnCall.results[i].instant =
                  IF fnCall.dates[i] = RSSLiteral THEN reference + 7 * 3600
                  ELSE reference

\* C22 witness: the three literals have been parsed in one run
C22_Witness ==
    /\ fnCall.fn = "parseRSSDate"
    /\ fnCall.dates = <<RSSLiteral, AtomLiteral, PlainLiteral>>
    /\ Len(fnCall.results) = 3
    /\ \A i \in 1..3 : fnCall.results[i].ok

(***************************************************************************)
(* A Service whose scheduler runs one CrawlAllDueFeeds batch after         *)
(* another while time passes.  Here the crawl's effect on the CMS counts:  *)
(* the last-crawled timestamp crawlSingleFeed writes is what the next      *)
(* refresh of the cache reads.                                             *)
(***************************************************************************)
\* UpdateFeedLastCrawledAt(id, now) at the CMS
StampFeed(l, id) ==
    [k \in DOMAIN l |-> IF l[k].id = id THEN [l[k] EXCEPT !.lastCrawledAt = now] ELSE l[k]]

\* result := s.crawlSingleFeed(&f) returns, with what it did at the CMS: a
\* crawl that did not fail may have written the feed's last-crawled
\* timestamp (the update may fail, and an empty document skips it)
WorkerCrawlAndStamp(t, i) ==
    /\ i \in DOMAIN wpc[t]
    /\ wpc[t][i] = "crawling"
    /\ \E ok, updated \in BOOLEAN :
        /\ updated => ok
        /\ wres' = [wres EXCEPT ![t][i] = [feedID |-> dueFeeds[t][i].id, success |-> ok]]
        /\ cmsFeeds' = IF updated THEN {StampFeed(l, dueFeeds[t][i].id) : l \in cmsFeeds}
                       ELSE cmsFeeds
    /\ wpc' = [wpc EXCEPT ![t][i] = "release"]
    /\ UNCHANGED <<now, cacheVars, crawlVars, queueVars>>
    /\ UNCHANGED <<bpc, dueFeeds, results, semaphore, wg, spawned, bret, outOfOrder, feedCall>>
    /\ UNCHANGED fnVars

\* the scheduler's ticker fires again after a batch has returned
BatchAgain(t) ==
    /\ bpc[t] = "returned"
    /\ bpc' = [bpc EXCEPT ![t] = "idle"]
    /\ bret' = [bret EXCEPT ![t] = "none"]
    /\ UNCHANGED <<now, cmsFeeds, cacheVars, crawlVars, queueVars>>
    /\ UNCHANGED <<dueFeeds, results, semaphore, wg, spawned, wpc, wres, outOfOrder, feedCall>>
    /\ UNCHANGED fnVars

\* two feeds never crawled, each with a crawl interval of some minutes
ScheduleFeedLists ==
    { <<[NewFeed(1) EXCEPT !.crawlIntervalMinutes = m[1]],
        [NewFeed(2) EXCEPT !.crawlIntervalMinutes = m[2]]>> : m \in [1..2 -> 1..MaxInterval] }

InitSchedule ==
    /\ now = 0
    /\ \E l \in ScheduleFeedLists : cmsFeeds = {l}
    /\ CacheInit
    /\ BatchInit
    /\ CrawlIdle
    /\ QueueIdle

NextSchedule ==
    \/ BatchStart("scheduler")
    \/ RLock("scheduler")
    \/ FirstCheck("scheduler")
    \/ LockBegin("scheduler")
    \/ LockAcquire("scheduler")
    \/ DoubleCheck("scheduler")
    \/ FetchOK("scheduler")
    \/ FetchFail("scheduler")
    \/ BatchGetFeedsFailed("scheduler")
    \/ BatchFilter("scheduler")
    \/ BatchSpawn("scheduler")
    \/ \E i \in Workers : WorkerAcquire("scheduler", i)
    \/ \E i \in Workers : WorkerCrawlAndStamp("scheduler", i)
    \/ \E i \in Workers : WorkerRelease("scheduler", i)
    \/ \E i \in Workers : WorkerStore("scheduler", i)
    \/ BatchWait("scheduler")
    \/ BatchAgain("scheduler")
    \/ Tick

SpecSchedule == InitSchedule /\ [][NextSchedule]_vars

\* the last-crawled timestamp the CMS holds for a feed
CMSLastCrawledAt(id) ==
    LET l == CHOOSE l \in cmsFeeds : TRUE
    IN  l[CHOOSE k \in DOMAIN l : l[k].id = id].lastCrawledAt

\* C23: a feed crawled by one CrawlAllDueFeeds batch, whose last-crawled
\* update succeeded, is not selected as due by a later batch of the same
\* Service until its crawl interval has elapsed since that crawl: whenever
\* the filter of a batch selects a feed, the CMS holds no timestamp for the
\* feed or one that is at least the crawl interval old.
C23_NotDueBeforeInterval ==
    [][ (bpc["scheduler"] = "getFeeds" /\ bpc'["scheduler"] = "spawn") =>
            \A i \in DOMAIN dueFeeds'["scheduler"] :
                LET f == dueFeeds'["scheduler"][i]
                    stamp == CMSLastCrawledAt(f.id)
                IN  stamp = NeverCrawled \/ now - stamp >= f.crawlIntervalMinutes ]_vars

(***************************************************************************)
(* Two crawls of one feed on the same Service: the scheduler's and the     *)
(* queue poller's goroutines are both inside crawlSingleFeed, each with    *)
(* its own locals, over the same CMS.                                      *)
(***************************************************************************)
\* a Service without content analysis, a feed document, and a CMS that holds
\* no post of the feed
InitOverlap ==
    /\ now = 0
    /\ cmsFeeds = FeedLists
    /\ CacheInit
    /\ BatchInit
    /\ feedDoc \in FeedDocs
    /\ cmsPosts = {}
    /\ otherPosts = 0
    /\ analysis = [enabled |-> FALSE, client |-> FALSE]
    /\ crawl = [t \in Callers |-> NoCrawl]
    /\ QueueIdle

NextOverlap ==
    \E t \in Callers :
        \/ CrawlStart(t)
        \/ ParseFeedFail(t)
        \/ ParseFeedOK(t)
        \/ ListExistingOK(t)
        \/ ListExistingFail(t)
        \/ NextPost(t)
        \/ CreatePostOK(t)
        \/ CreatePostFail(t)
        \/ UpdateLastCrawled(t)

SpecOverlap == InitOverlap /\ [][NextOverlap]_vars

\* the crawl of a goroutine is under way
Crawling(t) == crawl[t].pc \notin {"idle", "done"}

\* the GUIDs a goroutine's crawl has passed to CreateInspirationFeedPost
SubmittedGUIDs(t) == {crawl[t].submitted[i].guid : i \in 1..Len(crawl[t].submitted)}

\* C24: when two crawls of the same feed run at overlapping times, no GUID
\* is submitted for creation by both of them.
C24_NoGUIDSubmittedTwice ==
    (Crawling("scheduler") /\ Crawling("poller")) =>
        SubmittedGUIDs("scheduler") \cap SubmittedGUIDs("poller") = {}

\* C25: within one crawl of a feed, no two CreateInspirationFeedPost attempts
\* carry the same GUID, even when the feed document contains several items
\* with the same GUID (or the same link and no GUID).
C25_NoGUIDTwiceInOneCrawl ==
    \A t \in Callers :
        \A i, j \in 1..Len(crawl[t].submitted) :
            i # j => crawl[t].submitted[i].guid # crawl[t].submitted[j].guid

\* C26 as stated: UpdateFeedLastCrawledAt is attempted exactly once in every
\* crawl that returns Success=true, always after that crawl's last
\* post-creation attempt, and is never attempted in a crawl that returns
\* Success=false.
C26_UpdateOncePerSuccess ==
    \A t \in Callers :
        LET c == crawl[t]
        IN  /\ c.updated # "none" => (c.pc = "done" /\ c.result.success)
            /\ (c.pc = "done" /\ c.result.success) => c.updated # "none"

\* C26, amended: UpdateFeedLastCrawledAt is attempted exactly once in every
\* crawl that returns Success=true for a document with at least one item,
\* as the last step of the crawl and so after its last post-creation attempt;
\* it is not attempted in a crawl of a document without items, which also
\* returns Success=true, nor in a crawl that returns Success=false.
C26_UpdateOncePerNonEmptyCrawl ==
    \A t \in Callers :
        LET c == crawl[t]
        IN  /\ c.updated # "none" =>
                  (c.pc = "done" /\ c.result.success /\ c.result.postsFound > 0)
            /\ (c.pc = "done" /\ c.result.success /\ c.result.postsFound > 0) =>
                  c.updated # "none"

\* C26 witness: a crawl has returned after two creation attempts and a
\* timestamp update that failed
C26_Witness ==
    /\ crawl["scheduler"].pc = "done"
    /\ crawl["scheduler"].result.success
    /\ Len(crawl["scheduler"].submitted) = 2
    /\ crawl["scheduler"].updated = "failed"

\* how often a cycle's history holds an event
Times(c, what) ==
    Cardinality({k \in 1..Len(cycle[c].events) : cycle[c].events[k] = what})

\* C27: ProcessQueueRequests runs exactly one CrawlFeed(feedID) for a polled
\* request of type single that has a feed id, exactly one CrawlAllDueFeeds
\* for a polled request of type all, and no crawl at all for a single request
\* without a feed id, for a request of any other type, or when no request was
\* polled.
C27_OneCrawlPerRequest ==
    \A c \in Callers :
        LET r == cycle[c].request
            single == r.type = "single" /\ r.feedID # "nil"
            returned == cycle[c].pc = "done"
        IN  /\ Times(c, "CrawlFeed") <= (IF single THEN 1 ELSE 0)
            /\ Times(c, "CrawlAllDueFeeds") <= (IF r.type = "all" THEN 1 ELSE 0)
            /\ Times(c, "CrawlFeed") = 1 => cycle[c].arg = r.feedID
            /\ (returned /\ single) => Times(c, "CrawlFeed") = 1
            /\ (returned /\ r.type = "all") => Times(c, "CrawlAllDueFeeds") = 1

\* C27 witness: both goroutines have finished a cycle, one for a single
\* request with a feed id and one for a request of an unknown type
C27_Witness ==
    /\ cycle["poller"].pc = "done"
    /\ cycle["poller"].request.type = "single"
    /\ cycle["poller"].arg = "f1"
    /\ Times("poller", "CrawlFeed") = 1
    /\ cycle["scheduler"].pc = "done"
    /\ cycle["scheduler"].request.type = "refresh"
    /\ CrawlCalls("scheduler") = {}

(***************************************************************************)
(* llm.Client.AnalyzeContent and its call in crawlSingleFeed, as a         *)
(* function of the content prepared for the analysis and of what the       *)
(* upstream API does with the request.                                     *)
(***************************************************************************)
\* the content prepared from a post: shorter than 10 characters, with a
\* phrase ruleBasedAnalysis takes for referenced or for primary reporting,
\* or none of these
PreparedContents == {"insufficient", "referenced", "selfReference", "plain"}

\* what the upstream API does: the request fails in transport, is answered
\* with a status other than 200, with a body that is no JSON, with no
\* choices; or with one choice whose text holds no JSON object, a broken
\* one, or a verdict
Upstreams ==
    [kind : {"transportError", "badStatus", "undecodable", "noChoices", "noJSON", "badJSON"},
     primary : {FALSE}, source : {"nil"}]
    \cup [kind : {"answer"}, primary : BOOLEAN, source : {"nil", "", "null", "wire"}]

\* Client.makeAPIRequest: the text of the first choice, or an error
makeAPIRequest(upstream) ==
    IF upstream.kind \in {"transportError", "badStatus", "undecodable", "noChoices"}
    THEN [err |-> "error", choice |-> upstream]
    ELSE [err |-> "nil", choice |-> upstream]

\* Client.parseAnalysisResponse: the verdict of the text, or an error
parseAnalysisResponse(choice) ==
    IF choice.kind \in {"noJSON", "badJSON"}
    THEN [err |-> "error", primary |-> FALSE, source |-> "nil"]
    ELSE [err |-> "nil", primary |-> choice.primary,
          source |-> IF choice.source \in {"", "null"} THEN "nil" ELSE choice.source]

\* the response AnalyzeContent falls back to
DefaultToPrimary == [err |-> "nil", primary |-> TRUE, source |-> "nil"]

\* Client.AnalyzeContent
AnalyzeContent(content, upstream) ==
    IF content = "insufficient" THEN DefaultToPrimary
    ELSE IF content = "referenced" THEN [err |-> "nil", primary |-> FALSE, source |-> "Reuters"]
    ELSE IF content = "selfReference" THEN [err |-> "nil", primary |-> TRUE, source |-> "nil"]
    ELSE LET response == makeAPIRequest(upstream)
         IN  IF response.err # "nil" THEN DefaultToPrimary
             ELSE LET result == parseAnalysisResponse(response.choice)
                  IN  IF result.err # "nil" THEN DefaultToPrimary
                      ELSE result

NotReturned == [returned |-> FALSE, err |-> "nil", primary |-> FALSE, source |-> "nil"]

\* analysis, err := s.llmClient.AnalyzeContent(analysisReq) returns
CallAnalyzeContent ==
    /\ fnCall.fn = "AnalyzeContent"
    /\ ~fnCall.ret.returned
    /\ LET r == AnalyzeContent(fnCall.content, fnCall.upstream)
       IN  fnCall' = [fnCall EXCEPT !.ret = [returned |-> TRUE, err |-> r.err,
                                             primary |-> r.primary, source |-> r.source]]
    /\ UNCHANGED <<now, cmsFeeds, cacheVars, batchVars, crawlVars, queueVars, fnResult>>

\* crawlSingleFeed sets the fields of the post it will submit: not primary
\* reporting after an error, the analysis' verdict otherwise
ApplyAnalysis ==
    /\ fnCall.fn = "AnalyzeContent"
    /\ fnCall.ret.returned
    /\ fnResult = "none"
    /\ fnResult' = IF fnCall.ret.err # "nil" THEN "false"
                   ELSE IF fnCall.ret.primary THEN "true" ELSE "false"
    /\ UNCHANGED <<now, cmsFeeds, cacheVars, batchVars, crawlVars, queueVars, fnCall>>

InitAnalyze ==
    /\ ServiceIdle
    /\ fnCall \in [fn : {"AnalyzeContent"}, content : PreparedContents, upstream : Upstreams,
                   ret : {NotReturned}]

NextAnalyze == CallAnalyzeContent \/ ApplyAnalysis

SpecAnalyze == InitAnalyze /\ [][NextAnalyze]_vars

\* C28: when the classifier's upstream API request fails, returns no
\* choices, or returns an answer that cannot be parsed, AnalyzeContent
\* reports a failure to the orchestrator, so the post is submitted with
\* isPrimaryReporting=false.
C28_UpstreamFailureIsReported ==
    (/\ fnCall.fn = "AnalyzeContent"
     /\ fnCall.content = "plain"
     /\ fnCall.upstream.kind # "answer") =>
        /\ fnCall.ret.returned => fnCall.ret.err # "nil"
        /\ fnResult # "none" => fnResult = "false"

\* the feed definition the CMS holds for the id CrawlFeed is called with
RequestedFeed ==
    LET l == CHOOSE l \in cmsFeeds : TRUE
    IN  l[CHOOSE k \in DOMAIN l : l[k].id = RequestedFeedID]

\* C29: CrawlFeed(id) never reads or changes the FeedCache (its feed set and
\* last-refresh time, its lock and the calls of GetFeeds are unchanged by
\* every step of the call), and it crawls the feed definition fetched from
\* the CMS whether or not that feed is active or due.
C29_CrawlFeedBypassesCache ==
    /\ [](\A t \in Callers :
            (feedCall[t].got = "ok" /\ feedCall[t].pc = "returned") =>
                /\ feedCall[t].crawl # "none"
                /\ feedCall[t].result.feedID = RequestedFeedID)
    /\ [][\A t \in Callers : feedCall'[t] # feedCall[t] => UNCHANGED cacheVars]_vars

\* C29 witness: CrawlFeed has crawled a feed that is not due, and the cache
\* has never been filled
C29_Witness ==
    /\ feedCall["poller"].pc = "returned"
    /\ feedCall["poller"].crawl = "succeeded"
    /\ ~IsDue(RequestedFeed)
    /\ feeds = <<>>
    /\ lastUpdate = ZeroTime

(***************************************************************************)
(* HTMLCleaner.CleanHTML and its fallback basicClean, as a function of the *)
(* markup and of what html.Parse answers.  A regular expression is the     *)
(* sequence of the pieces of its source text.                              *)
(***************************************************************************)
scriptRegex == <<"(?i)", "<script", "[^>]*", ">", ".*?", "</script>">>
styleRegex == <<"(?i)", "<style", "[^>]*", ">", ".*?", "</style>">>
unwantedTagsRegex ==
    <<"(?i)", "<", "(nav|aside|footer|header|form)", "[^>]*", ">", ".*?", "</", "\\1", ">">>

\* the expressions postProcess compiles
postProcessRegexes ==
    << <<"\\s+">>,
       <<"<p", "[^>]*", ">", "\\s*", "</p>">>,
       <<"<div", "[^>]*", ">", "\\s*", "</div>">>,
       <<"<span", "[^>]*", ">", "\\s*", "</span>">>,
       <<"(", "<br", "\\s*", "/?", ">", "\\s*", ")", "{3,}">>,
       <<"<!--", ".*?", "-->">> >>

\* escapes the syntax of package regexp does not have
Backreferences == {"\\1", "\\2", "\\3", "\\4", "\\5", "\\6", "\\7", "\\8", "\\9"}

\* regexp.Compile: an expression with a backreference is rejected
Compile(expr) ==
    IF \E i \in DOMAIN expr : expr[i] \in Backreferences THEN "error" ELSE "nil"

\* regexp.MustCompile panics where Compile returns an error
MustCompile(expr) == IF Compile(expr) # "nil" THEN "panic" ELSE "compiled"

\* HTMLCleaner.postProcess
postProcess ==
    IF \E i \in DOMAIN postProcessRegexes : MustCompile(postProcessRegexes[i]) = "panic"
    THEN "panic"
    ELSE "sanitized"

\* HTMLCleaner.basicClean
basicClean ==
    IF MustCompile(scriptRegex) = "panic" THEN "panic"
    ELSE IF MustCompile(styleRegex) = "panic" THEN "panic"
    ELSE IF MustCompile(unwantedTagsRegex) = "panic" THEN "panic"
    ELSE postProcess

\* HTMLCleaner.CleanHTML, html.Parse answering with an error or a document
CleanHTML(rawHTML, parseErr) ==
    IF RawLen(rawHTML) = 0 THEN ""
    ELSE IF parseErr # "nil" THEN basicClean
    ELSE postProcess

CallCleanHTML ==
    /\ fnCall.fn = "CleanHTML"
    /\ fnResult = "none"
    /\ \E parseErr \in {"nil", "error"} :
        /\ fnCall' = [fnCall EXCEPT !.parseErr = IF RawLen(fnCall.rawHTML) = 0 THEN "none" ELSE parseErr]
        /\ fnResult' = CleanHTML(fnCall.rawHTML, parseErr)
    /\ UNCHANGED <<now, cmsFeeds, cacheVars, batchVars, crawlVars, queueVars>>

InitCleanHTML ==
    /\ ServiceIdle
    /\ fnCall \in [fn : {"CleanHTML"}, rawHTML : Contents(MaxBlocks), parseErr : {"none"}]

NextCleanHTML == CallCleanHTML

SpecCleanHTML == InitCleanHTML /\ [][NextCleanHTML]_vars

\* C30: when html.Parse fails on its input, CleanHTML takes the fallback
\* basicClean and returns a sanitized string; the fallback never panics.
C30_FallbackReturnsSanitized ==
    (fnCall.fn = "CleanHTML" /\ fnCall.parseErr = "error") => fnResult = "sanitized"

====
